---- MODULE Spec2Model ----
(***************************************************************************)
(* A model of pylorawan: the LoRaWAN frame codec (message.py), the MAC     *)
(* command layer (mac_commands.py), the key/MIC/cipher helpers (common.py, *)
(* encryption.py) and the regional parameters (bands): datarate tables,    *)
(* channel plans, payload sizes, channel masks and the band registry.      *)
(*                                                                         *)
(* The library keeps no state between calls.  The state of the model is    *)
(* what one caller holds between calls: the object it built (obj), the key *)
(* and direction it works with, the byte buffer it holds (wire), the       *)
(* outcome of its last decoding call (out) and the warnings the library    *)
(* wrote to the logging module (log).                                      *)
(*                                                                         *)
(* Conventions.  bytes are sequences over 0..255.  A Python object is a    *)
(* record whose field kind is its class name; None is the record None; a   *)
(* raised exception is the record Raise(name).  Python integers that fit   *)
(* 24 bits are naturals; 32 and 64 bit fields are tuples of 16 bit limbs,  *)
(* most significant limb first, because the checker's integers have 32     *)
(* bits.                                                                   *)
(***************************************************************************)
EXTENDS Integers, Sequences, FiniteSets, TLC

VARIABLES obj, key, direction, wire, out, log

vars == <<obj, key, direction, wire, out, log>>

---------------------------------------------------------------------------
(* Values shared by every layer *)

None == [kind |-> "None"]

Raise(name) == [kind |-> "Error", err |-> name]

IsError(x) == x.kind = "Error"

Min(a, b) == IF a < b THEN a ELSE b

Max(a, b) == IF a > b THEN a ELSE b

\* int(b) of a Python bool, as in `self.adr << 7`
BoolToInt(b) == IF b THEN 1 ELSE 0

\* bool(n) of a Python int
IntToBool(n) == n # 0

RECURSIVE Pow2(_)
Pow2(n) == IF n = 0 THEN 1 ELSE 2 * Pow2(n - 1)

\* a << n
ShiftLeft(a, n) == a * Pow2(n)

\* a >> n
ShiftRight(a, n) == a \div Pow2(n)

RECURSIVE BitAndNat(_, _)
BitAndNat(a, b) ==
  IF a = 0 \/ b = 0 THEN 0
  ELSE (a % 2) * (b % 2) + 2 * BitAndNat(a \div 2, b \div 2)

\* a & b for a mask b in 0..2^16-1; a negative a is read in two's complement
BitAnd(a, b) == BitAndNat(a % 65536, b)

RECURSIVE BitOr(_, _)
BitOr(a, b) ==
  IF a = 0 THEN b
  ELSE IF b = 0 THEN a
  ELSE (IF a % 2 = 1 \/ b % 2 = 1 THEN 1 ELSE 0) + 2 * BitOr(a \div 2, b \div 2)

RECURSIVE BitXor(_, _)
BitXor(a, b) ==
  IF a = 0 THEN b
  ELSE IF b = 0 THEN a
  ELSE (IF a % 2 = b % 2 THEN 0 ELSE 1) + 2 * BitXor(a \div 2, b \div 2)

\* b[i:j] of Python, 0-based and clipped to the buffer
Slice(b, i, j) == SubSeq(b, Max(i, 0) + 1, Min(j, Len(b)))

\* b[:-n] and b[-n:] for n > 0
DropLast(b, n) == SubSeq(b, 1, Len(b) - n)

TakeLast(b, n) == SubSeq(b, Max(Len(b) - n, 0) + 1, Len(b))

\* bytes(n)
ZeroBytes(n) == [i \in 1..n |-> 0]

\* x.to_bytes(size, byteorder="little") for a natural x that fits
RECURSIVE ToBytesLE(_, _)
ToBytesLE(x, size) ==
  IF size = 0 THEN <<>> ELSE <<x % 256>> \o ToBytesLE(x \div 256, size - 1)

\* int.from_bytes(b, byteorder="little") for at most 3 bytes
RECURSIVE FromBytesLE(_)
FromBytesLE(b) ==
  IF b = <<>> THEN 0 ELSE b[1] + 256 * FromBytesLE(Tail(b))

\* to_bytes / struct.pack("<L" or "<Q") of a 32 or 64 bit value held as limbs
RECURSIVE WideToBytesLE(_)
WideToBytesLE(w) ==
  IF w = <<>> THEN <<>>
  ELSE WideToBytesLE(Tail(w)) \o <<w[1] % 256, w[1] \div 256>>

\* int.from_bytes / struct.unpack of 4 or 8 bytes, as limbs
RECURSIVE WideFromBytesLE(_)
WideFromBytesLE(b) ==
  IF b = <<>> THEN <<>>
  ELSE WideFromBytesLE(SubSeq(b, 3, Len(b))) \o <<b[1] + 256 * b[2]>>

---------------------------------------------------------------------------
(* message.py: MHDR *)

MTypeNames == <<"JoinRequest", "JoinAccept", "UnconfirmedDataUp", "UnconfirmedDataDown",
                "ConfirmedDataUp", "ConfirmedDataDown", "RFU", "Proprietary">>

MTypes == {MTypeNames[i] : i \in 1..8}

\* MType(name).value
MTypeValue(name) == CHOOSE v \in 0..7 : MTypeNames[v + 1] = name

\* MType(value)
MTypeOfValue(v) == MTypeNames[v + 1]

\* the constructor that would let major 4 through
MHDR_init_MajorUpTo4(mtype, major) ==
  IF mtype \notin MTypes THEN Raise("MHDRError")
  ELSE IF ~(major \in Int /\ 0 <= major /\ major <= 4) THEN Raise("MHDRError")
  ELSE [kind |-> "MHDR", mtype |-> mtype, major |-> major]

\* MHDR.__init__
MHDR_init(mtype, major) ==
  IF mtype \notin MTypes THEN Raise("MHDRError")
  ELSE IF ~(major \in Int /\ 0 <= major /\ major < 4) THEN Raise("MHDRError")
  ELSE [kind |-> "MHDR", mtype |-> mtype, major |-> major]

\* MHDR.rfu
MHDR_rfu == 0

\* MHDR.parse
MHDR_parse(raw) ==
  IF Len(raw) # 1 THEN Raise("ParseMessageError")
  ELSE MHDR_init(MTypeOfValue(BitAnd(ShiftRight(raw[1], 5), 7)), BitAnd(raw[1], 3))

\* MHDR.generate
MHDR_generate(self) ==
  ToBytesLE(BitOr(BitOr(ShiftLeft(MTypeValue(self.mtype), 5), ShiftLeft(MHDR_rfu, 2)), self.major), 1)

---------------------------------------------------------------------------
(* message.py: FCtrl, FHDR, MACPayload *)

FCtrlDownlink_init(adr, ack, f_pending, f_opts_len) ==
  [kind |-> "FCtrlDownlink", adr |-> adr, ack |-> ack, f_pending |-> f_pending,
   f_opts_len |-> f_opts_len]

\* the parse that would read FPending from bit 6
FCtrlDownlink_parse_PendingAtBit6(raw) ==
  FCtrlDownlink_init(IntToBool(BitAnd(raw[1], 128)), IntToBool(BitAnd(raw[1], 32)),
                     IntToBool(BitAnd(raw[1], 64)), BitAnd(raw[1], 15))

FCtrlDownlink_parse(raw) ==
  FCtrlDownlink_init(IntToBool(BitAnd(raw[1], 128)), IntToBool(BitAnd(raw[1], 32)),
                     IntToBool(BitAnd(raw[1], 16)), BitAnd(raw[1], 15))

FCtrlDownlink_generate(self) ==
  <<BitOr(BitOr(BitOr(ShiftLeft(BoolToInt(self.adr), 7), ShiftLeft(BoolToInt(self.ack), 5)),
                ShiftLeft(BoolToInt(self.f_pending), 4)), self.f_opts_len)>>

FCtrlUplink_init(adr, adr_ack_req, ack, class_b, f_opts_len) ==
  [kind |-> "FCtrlUplink", adr |-> adr, adr_ack_req |-> adr_ack_req, ack |-> ack,
   class_b |-> class_b, f_opts_len |-> f_opts_len]

FCtrlUplink_parse(raw) ==
  FCtrlUplink_init(IntToBool(BitAnd(raw[1], 128)), IntToBool(BitAnd(raw[1], 64)),
                   IntToBool(BitAnd(raw[1], 32)), IntToBool(BitAnd(raw[1], 16)),
                   BitAnd(raw[1], 15))

FCtrlUplink_generate(self) ==
  <<BitOr(BitOr(BitOr(BitOr(ShiftLeft(BoolToInt(self.adr), 7),
                            ShiftLeft(BoolToInt(self.adr_ack_req), 6)),
                      ShiftLeft(BoolToInt(self.ack), 5)),
                ShiftLeft(BoolToInt(self.class_b), 4)), self.f_opts_len)>>

\* the generate method of whichever FCtrl class the object has
FCtrl_generate(self) ==
  IF self.kind = "FCtrlUplink" THEN FCtrlUplink_generate(self) ELSE FCtrlDownlink_generate(self)

DEV_ADDR_SIZE == 4

FCTRL_SIZE == 1

FCNT_SIZE == 2

FPORT_SIZE == 1

\* FHDR.__init__; cls is "FHDRUplink" or "FHDRDownlink"
FHDR_init(cls, dev_addr, f_ctrl, f_cnt, f_opts) ==
  [kind |-> cls, dev_addr |-> dev_addr, f_ctrl |-> f_ctrl, f_cnt |-> f_cnt, f_opts |-> f_opts]

\* FHDR.parse on the stream raw, read from position 0: each read returns the
\* bytes that are left, up to the size asked for
FHDR_parse(cls, raw) ==
  LET dev_addr == WideFromBytesLE(Slice(raw, 0, DEV_ADDR_SIZE))
      ctrl     == Slice(raw, DEV_ADDR_SIZE, DEV_ADDR_SIZE + FCTRL_SIZE)
      f_ctrl   == IF cls = "FHDRUplink" THEN FCtrlUplink_parse(ctrl)
                  ELSE FCtrlDownlink_parse(ctrl)
      cntAt    == DEV_ADDR_SIZE + FCTRL_SIZE
      f_cnt    == FromBytesLE(Slice(raw, cntAt, cntAt + FCNT_SIZE))
      optsAt   == cntAt + FCNT_SIZE
      f_opts   == Slice(raw, optsAt, optsAt + f_ctrl.f_opts_len)
  IN FHDR_init(cls, dev_addr, f_ctrl, f_cnt, f_opts)

\* FHDR.generate
FHDR_generate(self) ==
  WideToBytesLE(self.dev_addr) \o FCtrl_generate(self.f_ctrl)
    \o ToBytesLE(self.f_cnt, FCNT_SIZE) \o self.f_opts

\* f_port is None
NoPort == -1

\* MACPayload.get_fhdr_cls of MACPayloadUplink and MACPayloadDownlink
FhdrClsOf(cls) == IF cls = "MACPayloadUplink" THEN "FHDRUplink" ELSE "FHDRDownlink"

\* MACPayload.__init__; cls is "MACPayloadUplink" or "MACPayloadDownlink"
MACPayload_init(cls, fhdr, f_port, frm_payload) ==
  IF fhdr.kind \notin {"FHDRUplink", "FHDRDownlink"} THEN Raise("MACPayloadError")
  ELSE IF ~(f_port = NoPort \/ (0 <= f_port /\ f_port < 256)) THEN Raise("MACPayloadError")
  ELSE [kind |-> cls, fhdr |-> fhdr, f_port |-> f_port, frm_payload |-> frm_payload]

\* MACPayload.parse
\* the parse that would read a port byte of 0 as "no port"
MACPayload_parse_PortZeroAbsent(cls, raw) ==
  IF Len(raw) < 7 THEN Raise("ParseMessageError")
  ELSE
    LET fhdr   == FHDR_parse(FhdrClsOf(cls), raw)
        portAt == DEV_ADDR_SIZE + FCTRL_SIZE + FCNT_SIZE + Len(fhdr.f_opts)
        port   == Slice(raw, portAt, portAt + FPORT_SIZE)
        f_port == IF port = <<>> \/ FromBytesLE(port) = 0 THEN NoPort ELSE FromBytesLE(port)
        frm    == Slice(raw, portAt + Len(port), Len(raw))
    IN MACPayload_init(cls, fhdr, f_port, frm)

MACPayload_parse(cls, raw) ==
  IF Len(raw) < 7 THEN Raise("ParseMessageError")
  ELSE
    LET fhdr   == FHDR_parse(FhdrClsOf(cls), raw)
        portAt == DEV_ADDR_SIZE + FCTRL_SIZE + FCNT_SIZE + Len(fhdr.f_opts)
        port   == Slice(raw, portAt, portAt + FPORT_SIZE)
        f_port == IF port = <<>> THEN NoPort ELSE FromBytesLE(port)
        frm    == Slice(raw, portAt + Len(port), Len(raw))
    IN MACPayload_init(cls, fhdr, f_port, frm)

\* MACPayload.generate
MACPayload_generate(self) ==
  IF self.f_port # NoPort
  THEN FHDR_generate(self.fhdr) \o ToBytesLE(self.f_port, FPORT_SIZE) \o self.frm_payload
  ELSE FHDR_generate(self.fhdr)

IsMACPayload(p) == p.kind \in {"MACPayloadUplink", "MACPayloadDownlink"}

---------------------------------------------------------------------------
(* message.py: JoinRequest, Proprietary *)

JoinRequest_init(app_eui, dev_eui, dev_nonce) ==
  [kind |-> "JoinRequest", app_eui |-> app_eui, dev_eui |-> dev_eui, dev_nonce |-> dev_nonce]

\* the parse that would accept a buffer longer than 18 bytes
JoinRequest_parse_AtLeast18(raw) ==
  IF Len(raw) < 18 THEN Raise("ParseMessageError")
  ELSE JoinRequest_init(WideFromBytesLE(Slice(raw, 0, 8)), WideFromBytesLE(Slice(raw, 8, 16)),
                        FromBytesLE(Slice(raw, 16, 18)))

\* JoinRequest.parse: struct.unpack("<QQH", raw)
JoinRequest_parse(raw) ==
  IF Len(raw) # 18 THEN Raise("ParseMessageError")
  ELSE JoinRequest_init(WideFromBytesLE(Slice(raw, 0, 8)), WideFromBytesLE(Slice(raw, 8, 16)),
                        FromBytesLE(Slice(raw, 16, 18)))

\* JoinRequest.generate: struct.pack("<QQH", ...)
JoinRequest_generate(self) ==
  WideToBytesLE(self.app_eui) \o WideToBytesLE(self.dev_eui) \o ToBytesLE(self.dev_nonce, 2)

Proprietary_init(payload) == [kind |-> "Proprietary", payload |-> payload]

Proprietary_parse(raw) == Proprietary_init(raw)

Proprietary_generate(self) == self.payload

---------------------------------------------------------------------------
(* message.py: PHYPayload *)

DataMTypes == {"UnconfirmedDataDown", "UnconfirmedDataUp", "ConfirmedDataDown", "ConfirmedDataUp"}

\* PHYPayload.__init__
PHYPayload_init(mhdr, payload, mic) ==
  IF mhdr # None /\ mhdr.kind # "MHDR" THEN Raise("PHYPayloadError")
  ELSE IF \/ (mhdr.mtype = "Proprietary" /\ payload.kind # "Proprietary")
          \/ (mhdr.mtype \in DataMTypes /\ ~IsMACPayload(payload))
          \/ (mhdr.mtype = "JoinRequest" /\ payload.kind # "JoinRequest")
       THEN Raise("PHYPayloadError")
  ELSE [kind |-> "PHYPayload", mhdr |-> mhdr, payload |-> payload, mic |-> mic]

\* payload_cls.parse of the class PHYPayload.parse selected
Payload_parse(cls, raw) ==
  CASE cls = "JoinRequest" -> JoinRequest_parse(raw)
    [] cls = "Proprietary" -> Proprietary_parse(raw)
    [] OTHER -> MACPayload_parse(cls, raw)

\* payload.generate() of whichever payload class the object has
Payload_generate(self) ==
  CASE self.kind = "JoinRequest" -> JoinRequest_generate(self)
    [] self.kind = "Proprietary" -> Proprietary_generate(self)
    [] OTHER -> MACPayload_generate(self)

\* PHYPayload.parse
PHYPayload_parse(raw) ==
  IF Len(raw) < 5 THEN Raise("ParseMessageError")
  ELSE
    LET mhdr == MHDR_parse(Slice(raw, 0, 1))
        cls  == CASE mhdr.mtype \in {"ConfirmedDataUp", "UnconfirmedDataUp"} -> "MACPayloadUplink"
                  [] mhdr.mtype \in {"ConfirmedDataDown", "UnconfirmedDataDown"} -> "MACPayloadDownlink"
                  [] mhdr.mtype = "JoinRequest" -> "JoinRequest"
                  [] mhdr.mtype = "Proprietary" -> "Proprietary"
                  [] OTHER -> "none"
    IN IF cls = "none" THEN Raise("PHYPayloadError")
       ELSE LET payload == Payload_parse(cls, DropLast(Tail(raw), 4))
            IN IF IsError(payload) THEN payload
               ELSE PHYPayload_init(mhdr, payload, TakeLast(raw, 4))

\* PHYPayload.generate
PHYPayload_generate(self) ==
  MHDR_generate(self.mhdr) \o Payload_generate(self.payload) \o self.mic

---------------------------------------------------------------------------
(* encryption.py.  AES-128 comes from the Cryptodome package, which is not *)
(* part of the repository.  What the callers rely on is that, under one    *)
(* key, encryption is a permutation of the 16-byte blocks, decryption is   *)
(* its inverse and the two differ.  The stand-in below is such a keyed     *)
(* permutation: two substitution chains over the block, one in each        *)
(* direction, so that every byte of the output depends on every byte of    *)
(* the input.  CMAC is the chained MAC over that permutation.              *)

\* a permutation of 0..255
Sbox(x) == (x * (2 * x + 1)) % 256

SboxInv == [y \in 0..255 |-> CHOOSE x \in 0..255 : Sbox(x) = y]

RECURSIVE Reverse(_)
Reverse(b) == IF b = <<>> THEN <<>> ELSE Reverse(Tail(b)) \o <<Head(b)>>

\* c[i] = Sbox(b[i] + k[i] + c[i-1]), left to right, from position i
RECURSIVE Chain(_, _, _, _)
Chain(b, k, i, prev) ==
  IF i > Len(b) THEN <<>>
  ELSE LET c == Sbox((b[i] + k[i] + prev) % 256) IN <<c>> \o Chain(b, k, i + 1, c)

\* the inverse of Chain
Unchain(c, k) ==
  [i \in 1..Len(c) |-> (SboxInv[c[i]] - k[i] - (IF i = 1 THEN 0 ELSE c[i - 1])) % 256]

\* one block under AES.new(key, AES.MODE_ECB).encrypt
EncryptBlock(k, b) == Reverse(Chain(Reverse(Chain(b, k, 1, 0)), k, 1, 0))

\* one block under AES.new(key, AES.MODE_ECB).decrypt
DecryptBlock(k, c) == Unchain(Reverse(Unchain(Reverse(c), k)), k)

RECURSIVE EcbEncrypt(_, _)
EcbEncrypt(k, m) ==
  IF m = <<>> THEN <<>>
  ELSE EncryptBlock(k, SubSeq(m, 1, 16)) \o EcbEncrypt(k, SubSeq(m, 17, Len(m)))

RECURSIVE EcbDecrypt(_, _)
EcbDecrypt(k, m) ==
  IF m = <<>> THEN <<>>
  ELSE DecryptBlock(k, SubSeq(m, 1, 16)) \o EcbDecrypt(k, SubSeq(m, 17, Len(m)))

\* a value of type bytes, where the call may raise instead
Bytes(b) == [kind |-> "bytes", val |-> b]

\* aes128_encrypt; ECB mode raises ValueError on data that is not a whole
\* number of blocks
aes128_encrypt(k, message) ==
  IF Len(message) % 16 # 0 THEN Raise("ValueError") ELSE Bytes(EcbEncrypt(k, message))

\* aes128_decrypt
aes128_decrypt(k, message) ==
  IF Len(message) % 16 # 0 THEN Raise("ValueError") ELSE Bytes(EcbDecrypt(k, message))

\* the chaining of CMAC: each block is added into the running block, which
\* is then encrypted
RECURSIVE CmacChain(_, _, _)
CmacChain(k, m, state) ==
  IF m = <<>> THEN state
  ELSE CmacChain(k, SubSeq(m, 17, Len(m)),
                 EncryptBlock(k, [i \in 1..16 |-> BitXor(state[i], m[i])]))

\* aes128_cmac: the message is closed by the byte 0x80 and zero bytes up to a
\* whole block; the digest is the last running block
aes128_cmac(k, message) ==
  LET padded == message \o <<128>> \o ZeroBytes(15 - (Len(message) % 16))
  IN CmacChain(k, padded, ZeroBytes(16))

\* generate_mic
generate_mic(k, message) == SubSeq(aes128_cmac(k, message), 1, 4)

---------------------------------------------------------------------------
(* common.py: payload cipher, MIC of data frames and join requests *)

\* ceil(len(frm_payload) / 16)
\* the block count that would round down instead of up
NumBlocks_Floor(n) == n \div 16

NumBlocks(n) == (n + 15) \div 16

\* s after the loop of decrypt_frm_payload: the blocks aes128_encrypt(key, s_i)
\* for i = 0 .. k-1, with s_i[15] = i + 1
RECURSIVE KeyStream(_, _, _, _)
KeyStream(k, s_i, i, n) ==
  IF i >= n THEN <<>>
  ELSE EncryptBlock(k, [s_i EXCEPT ![16] = i + 1]) \o KeyStream(k, s_i, i + 1, n)

\* decrypt_frm_payload; zip stops at the shorter of the payload and the stream
decrypt_frm_payload(frm_payload, k, dev_addr, counter, dir) ==
  LET s_i == <<1, 0, 0, 0, 0>> \o ToBytesLE(dir, 1) \o WideToBytesLE(dev_addr)
               \o ToBytesLE(counter, 4) \o ZeroBytes(2)
      s   == KeyStream(k, s_i, 0, NumBlocks(Len(frm_payload)))
  IN [i \in 1..Min(Len(frm_payload), Len(s)) |-> BitXor(frm_payload[i], s[i])]

\* encrypt_frm_payload
encrypt_frm_payload(frm_payload, k, dev_addr, counter, dir) ==
  decrypt_frm_payload(frm_payload, k, dev_addr, counter, dir)

\* int(isinstance(mac_payload, MACPayloadDownlink))
\* the direction byte that would be the uplink's for every frame
DirectionOf_AlwaysUplink(mac_payload) == 0

DirectionOf(mac_payload) == BoolToInt(mac_payload.kind = "MACPayloadDownlink")

\* generate_mic_mac_payload
generate_mic_mac_payload(mhdr, mac_payload, nwk_skey) ==
  LET msg       == MHDR_generate(mhdr) \o MACPayload_generate(mac_payload)
      block_b_0 == <<73, 0, 0, 0, 0, DirectionOf(mac_payload)>>
                     \o WideToBytesLE(mac_payload.fhdr.dev_addr)
                     \o ToBytesLE(mac_payload.fhdr.f_cnt, 4)
                     \o <<0, Len(msg)>>
  IN generate_mic(nwk_skey, block_b_0 \o msg)

\* generate_mic_join_request
generate_mic_join_request(mhdr, join_request, app_key) ==
  generate_mic(app_key, MHDR_generate(mhdr) \o JoinRequest_generate(join_request))

\* verify_mic_join_request
verify_mic_join_request(phy_payload, app_key) ==
  generate_mic_join_request(phy_payload.mhdr, phy_payload.payload, app_key) = phy_payload.mic

\* verify_mic_mac_payload
verify_mic_mac_payload(phy_payload, nwk_skey) ==
  generate_mic_mac_payload(phy_payload.mhdr, phy_payload.payload, nwk_skey) = phy_payload.mic

\* a Python bool returned by a function that may also return None
Bool(b) == [kind |-> "bool", val |-> b]

\* verify_mic_phy_payload: no branch is taken for any other payload, and the
\* function returns None
verify_mic_phy_payload(phy_payload, k) ==
  IF phy_payload.payload.kind = "JoinRequest" THEN Bool(verify_mic_join_request(phy_payload, k))
  ELSE IF IsMACPayload(phy_payload.payload) THEN Bool(verify_mic_mac_payload(phy_payload, k))
  ELSE None

---------------------------------------------------------------------------
(* message.py: DLSettings, JoinAccept *)

DLSettings_init(rx1_dr_offset, rx2_datarate) ==
  [kind |-> "DLSettings", rx1_dr_offset |-> rx1_dr_offset, rx2_datarate |-> rx2_datarate]

\* the parse that would take rx1_dr_offset from the low bits
DLSettings_parse_NoShift(raw) ==
  DLSettings_init(BitAnd(raw[1], 7), BitAnd(raw[1], 15))

DLSettings_parse(raw) ==
  DLSettings_init(BitAnd(ShiftRight(raw[1], 4), 7), BitAnd(raw[1], 15))

DLSettings_generate(self) ==
  ToBytesLE(BitOr(ShiftLeft(self.rx1_dr_offset, 4), self.rx2_datarate), 1)

JoinAccept_init(app_nonce, net_id, dev_addr, dl_settings, rx_delay, cf_list) ==
  [kind |-> "JoinAccept", app_nonce |-> app_nonce, net_id |-> net_id, dev_addr |-> dev_addr,
   dl_settings |-> dl_settings, rx_delay |-> rx_delay, cf_list |-> cf_list]

\* JoinAccept.parse; the reads of the stream return the bytes that are left
\* the parse that would skip the comparison of the MICs
JoinAccept_parse_NoMicCheck(raw, app_key) ==
  IF Len(raw) < 12 THEN Raise("ParseMessageError")
  ELSE
    LET mhdr == MHDR_parse(Slice(raw, 0, 1))
    IN IF mhdr.mtype # "JoinAccept" THEN Raise("ParseMessageError")
       ELSE
         LET decoded_raw == aes128_encrypt(app_key, Tail(raw))
         IN IF IsError(decoded_raw) THEN decoded_raw
            ELSE
              LET body == DropLast(decoded_raw.val, 4)
              IN JoinAccept_init(FromBytesLE(Slice(body, 0, 3)),
                                 FromBytesLE(Slice(body, 3, 6)),
                                 WideFromBytesLE(Slice(body, 6, 10)),
                                 DLSettings_parse(Slice(body, 10, 11)),
                                 FromBytesLE(Slice(body, 11, 12)),
                                 Slice(body, 12, Len(body)))

JoinAccept_parse(raw, app_key) ==
  IF Len(raw) < 12 THEN Raise("ParseMessageError")
  ELSE
    LET mhdr == MHDR_parse(Slice(raw, 0, 1))
    IN IF mhdr.mtype # "JoinAccept" THEN Raise("ParseMessageError")
       ELSE
         LET decoded_raw == aes128_encrypt(app_key, Tail(raw))
         IN IF IsError(decoded_raw) THEN decoded_raw
            ELSE
              LET mic  == TakeLast(decoded_raw.val, 4)
                  body == DropLast(decoded_raw.val, 4)
              IN IF mic # generate_mic(app_key, MHDR_generate(mhdr) \o body)
                 THEN Raise("MICError")
                 ELSE JoinAccept_init(FromBytesLE(Slice(body, 0, 3)),
                                      FromBytesLE(Slice(body, 3, 6)),
                                      WideFromBytesLE(Slice(body, 6, 10)),
                                      DLSettings_parse(Slice(body, 10, 11)),
                                      FromBytesLE(Slice(body, 11, 12)),
                                      Slice(body, 12, Len(body)))

\* JoinAccept.generate: the wire bytes, or the exception of aes128_decrypt
JoinAccept_generate(self, app_key) ==
  LET mhdr  == MHDR_init("JoinAccept", 0)
      bytes_join_accept ==
        ToBytesLE(self.app_nonce, 3) \o ToBytesLE(self.net_id, 3)
          \o WideToBytesLE(self.dev_addr) \o DLSettings_generate(self.dl_settings)
          \o ToBytesLE(self.rx_delay, 1) \o self.cf_list
      bytes_mhdr == MHDR_generate(mhdr)
      mic == generate_mic(app_key, bytes_mhdr \o bytes_join_accept)
      encrypted_bytes_join_accept == aes128_decrypt(app_key, bytes_join_accept \o mic)
  IN IF IsError(encrypted_bytes_join_accept) THEN encrypted_bytes_join_accept
     ELSE Bytes(bytes_mhdr \o encrypted_bytes_join_accept.val)

---------------------------------------------------------------------------
(* mac_commands.py: the command classes.  A command without fields is the  *)
(* record [kind |-> class name]: MACCommand.parse returns cls() and        *)
(* MACCommand.generate returns the CID byte.                               *)

\* raw[i] of Python on a buffer too short for it
IndexError == Raise("IndexError")

LinkADRAns_init(channel_mask_ack, datarate_ack, power_ack) ==
  [kind |-> "LinkADRAns", channel_mask_ack |-> channel_mask_ack,
   datarate_ack |-> datarate_ack, power_ack |-> power_ack]

LinkADRAns_parse(raw) ==
  IF Len(raw) < 1 THEN IndexError
  ELSE LinkADRAns_init(IntToBool(BitAnd(raw[1], 1)), IntToBool(BitAnd(raw[1], 2)),
                       IntToBool(BitAnd(raw[1], 4)))

LinkADRAns_generate(self) ==
  <<3, BitOr(BitOr(ShiftLeft(BoolToInt(self.power_ack), 2),
                   ShiftLeft(BoolToInt(self.datarate_ack), 1)),
             BoolToInt(self.channel_mask_ack))>>

RXParamSetupAns_init(channel_ack, rx2_datarate_ack, rx1_datarate_offset_ack) ==
  [kind |-> "RXParamSetupAns", channel_ack |-> channel_ack,
   rx2_datarate_ack |-> rx2_datarate_ack,
   rx1_datarate_offset_ack |-> rx1_datarate_offset_ack]

RXParamSetupAns_parse(raw) ==
  IF Len(raw) < 1 THEN IndexError
  ELSE RXParamSetupAns_init(IntToBool(BitAnd(raw[1], 1)), IntToBool(BitAnd(raw[1], 2)),
                            IntToBool(BitAnd(raw[1], 4)))

RXParamSetupAns_generate(self) ==
  <<5, BitOr(BitOr(ShiftLeft(BoolToInt(self.rx1_datarate_offset_ack), 2),
                   ShiftLeft(BoolToInt(self.rx2_datarate_ack), 1)),
             BoolToInt(self.channel_ack))>>

DevStatusAns_init(battery, margin) ==
  [kind |-> "DevStatusAns", battery |-> battery, margin |-> margin]

DevStatusAns_parse(raw) ==
  IF Len(raw) < 2 THEN IndexError
  ELSE LET margin == BitAnd(raw[2], 31)
       IN DevStatusAns_init(raw[1], IF BitAnd(raw[2], 32) # 0 THEN -margin - 1 ELSE margin)

DevStatusAns_generate(self) ==
  <<6, self.battery,
    IF self.margin > 0 THEN BitAnd(self.margin, 31)
    ELSE BitOr(BitAnd(-self.margin - 1, 31), 32)>>

NewChannelAns_init(channel_frequency_ack, datarate_range_ack) ==
  [kind |-> "NewChannelAns", channel_frequency_ack |-> channel_frequency_ack,
   datarate_range_ack |-> datarate_range_ack]

NewChannelAns_parse(raw) ==
  IF Len(raw) < 1 THEN IndexError
  ELSE NewChannelAns_init(IntToBool(BitAnd(raw[1], 1)), IntToBool(BitAnd(raw[1], 2)))

NewChannelAns_generate(self) ==
  <<7, BitOr(ShiftLeft(BoolToInt(self.datarate_range_ack), 1),
             BoolToInt(self.channel_frequency_ack))>>

DlChannelAns_init(channel_frequency_ok, uplink_frequency_exists) ==
  [kind |-> "DlChannelAns", channel_frequency_ok |-> channel_frequency_ok,
   uplink_frequency_exists |-> uplink_frequency_exists]

DlChannelAns_parse(raw) ==
  IF Len(raw) < 1 THEN IndexError
  ELSE DlChannelAns_init(IntToBool(BitAnd(raw[1], 1)), IntToBool(BitAnd(raw[1], 2)))

DlChannelAns_generate(self) ==
  <<10, BitOr(ShiftLeft(BoolToInt(self.uplink_frequency_exists), 1),
              BoolToInt(self.channel_frequency_ok))>>

PingSlotInfoReq_init(periodicity) ==
  [kind |-> "PingSlotInfoReq", periodicity |-> BitAnd(periodicity, 7)]

PingSlotInfoReq_parse(raw) == PingSlotInfoReq_init(FromBytesLE(raw))

PingSlotInfoReq_generate(self) == <<16, self.periodicity>>

BeaconFreqAns_init(status) == [kind |-> "BeaconFreqAns", status |-> status]

BeaconFreqAns_parse(raw) == BeaconFreqAns_init(IntToBool(BitAnd(FromBytesLE(raw), 1)))

BeaconFreqAns_generate(self) == <<19, BoolToInt(self.status)>>

PingSlotChannelAns_init(datarate_status, channel_frequency_status) ==
  [kind |-> "PingSlotChannelAns", datarate_status |-> datarate_status,
   channel_frequency_status |-> channel_frequency_status]

PingSlotChannelAns_parse(raw) ==
  IF Len(raw) < 1 THEN IndexError
  ELSE PingSlotChannelAns_init(IntToBool(BitAnd(raw[1], 2)), IntToBool(BitAnd(raw[1], 1)))

PingSlotChannelAns_generate(self) ==
  <<17, BitOr(ShiftLeft(BoolToInt(self.datarate_status), 1),
              BoolToInt(self.channel_frequency_status))>>

PingSlotChannelReq_init(datarate, frequency) ==
  [kind |-> "PingSlotChannelReq", datarate |-> BitAnd(datarate, 15),
   frequency |-> frequency % 16777216]

PingSlotChannelReq_parse(raw) ==
  IF Len(raw) < 4 THEN IndexError
  ELSE PingSlotChannelReq_init(BitAnd(raw[4], 15), FromBytesLE(Slice(raw, 0, 3)))

PingSlotChannelReq_generate(self) ==
  ToBytesLE(17, 1) \o ToBytesLE(self.frequency, 3) \o ToBytesLE(self.datarate, 1)

BeaconFreqReq_init(frequency) ==
  [kind |-> "BeaconFreqReq", frequency |-> frequency % 16777216]

BeaconFreqReq_parse(raw) == BeaconFreqReq_init(FromBytesLE(raw))

BeaconFreqReq_generate(self) == ToBytesLE(19, 1) \o ToBytesLE(self.frequency, 3)

LinkCheckAns_init(margin, gw_cnt) ==
  [kind |-> "LinkCheckAns", margin |-> margin, gw_cnt |-> gw_cnt]

LinkCheckAns_parse(raw) ==
  IF Len(raw) < 2 THEN IndexError ELSE LinkCheckAns_init(raw[1], raw[2])

LinkCheckAns_generate(self) == <<2, self.margin, self.gw_cnt>>

LinkADRReq_init(tx_power, datarate, ch_mask, nb_trans, ch_mask_cntl) ==
  [kind |-> "LinkADRReq", tx_power |-> tx_power, datarate |-> datarate,
   ch_mask |-> ch_mask, nb_trans |-> nb_trans, ch_mask_cntl |-> ch_mask_cntl]

LinkADRReq_parse(raw) ==
  IF Len(raw) < 4 THEN IndexError
  ELSE LinkADRReq_init(BitAnd(raw[1], 15), ShiftRight(raw[1], 4),
                       FromBytesLE(Slice(raw, 1, 3)), BitAnd(raw[4], 15),
                       BitAnd(ShiftRight(raw[4], 4), 7))

LinkADRReq_generate(self) ==
  <<3, BitOr(BitAnd(self.tx_power, 15), ShiftLeft(BitAnd(self.datarate, 15), 4)),
    BitAnd(self.ch_mask, 255), BitAnd(ShiftRight(self.ch_mask, 8), 255),
    BitOr(BitAnd(self.nb_trans, 15), ShiftLeft(BitAnd(self.ch_mask_cntl, 7), 4))>>

DutyCycleReq_init(max_dcycle) == [kind |-> "DutyCycleReq", max_dcycle |-> max_dcycle]

DutyCycleReq_parse(raw) ==
  IF Len(raw) < 1 THEN IndexError ELSE DutyCycleReq_init(raw[1])

DutyCycleReq_generate(self) == <<4, self.max_dcycle>>

RXParamSetupReq_init(rx2_datarate, rx1_datarate_offset, rx2_frequency) ==
  [kind |-> "RXParamSetupReq", rx2_datarate |-> rx2_datarate,
   rx1_datarate_offset |-> rx1_datarate_offset, rx2_frequency |-> rx2_frequency]

RXParamSetupReq_parse(raw) ==
  IF Len(raw) < 1 THEN IndexError
  ELSE RXParamSetupReq_init(BitAnd(raw[1], 15), BitAnd(ShiftRight(raw[1], 4), 7),
                            FromBytesLE(Slice(raw, 1, 4)))

RXParamSetupReq_generate(self) ==
  <<5, BitOr(BitAnd(self.rx2_datarate, 15), ShiftLeft(BitAnd(self.rx1_datarate_offset, 7), 4))>>
    \o ToBytesLE(self.rx2_frequency, 3)

NewChannelReq_init(ch_index, ch_frequency, min_datarate, max_datarate) ==
  [kind |-> "NewChannelReq", ch_index |-> ch_index, ch_frequency |-> ch_frequency,
   min_datarate |-> min_datarate, max_datarate |-> max_datarate]

NewChannelReq_parse(raw) ==
  IF Len(raw) < 5 THEN IndexError
  ELSE NewChannelReq_init(raw[1], FromBytesLE(Slice(raw, 1, 4)), BitAnd(raw[5], 15),
                          BitAnd(ShiftRight(raw[5], 4), 15))

NewChannelReq_generate(self) ==
  <<7, self.ch_index>> \o ToBytesLE(self.ch_frequency, 3)
    \o <<BitOr(BitAnd(self.min_datarate, 15), ShiftLeft(BitAnd(self.max_datarate, 15), 4))>>

RXTimingSetupReq_init(delay) == [kind |-> "RXTimingSetupReq", delay |-> BitAnd(delay, 15)]

RXTimingSetupReq_parse(raw) ==
  IF Len(raw) < 1 THEN IndexError ELSE RXTimingSetupReq_init(raw[1])

RXTimingSetupReq_generate(self) == <<8, self.delay>>

TXParamSetupReq_init(max_eirp, uplink_dwell_time, downlink_dwell_time) ==
  [kind |-> "TXParamSetupReq", max_eirp |-> BitAnd(max_eirp, 15),
   uplink_dwell_time |-> BitAnd(uplink_dwell_time, 1),
   downlink_dwell_time |-> BitAnd(downlink_dwell_time, 1)]

TXParamSetupReq_parse(raw) ==
  IF Len(raw) # 1 THEN Raise("MACCommandParseError")
  ELSE TXParamSetupReq_init(BitAnd(raw[1], 15), BitAnd(ShiftRight(raw[1], 4), 1),
                            BitAnd(ShiftRight(raw[1], 5), 1))

TXParamSetupReq_generate(self) ==
  <<9, BitOr(BitOr(ShiftLeft(self.downlink_dwell_time, 5), ShiftLeft(self.uplink_dwell_time, 4)),
             self.max_eirp)>>

DlChannelReq_init(ch_index, freq) ==
  [kind |-> "DlChannelReq", ch_index |-> ch_index, freq |-> freq]

DlChannelReq_parse(raw) ==
  IF Len(raw) < 1 THEN IndexError
  ELSE DlChannelReq_init(raw[1], FromBytesLE(Slice(raw, 1, Len(raw))))

DlChannelReq_generate(self) == <<10, self.ch_index>> \o ToBytesLE(self.freq, 3)

\* seconds is a 32 bit value, held as two limbs
DeviceTimeAns_init(seconds, fractional_second) ==
  [kind |-> "DeviceTimeAns", seconds |-> seconds, fractional_second |-> fractional_second]

DeviceTimeAns_parse(raw) ==
  IF Len(raw) < 5 THEN IndexError
  ELSE DeviceTimeAns_init(WideFromBytesLE(Slice(raw, 0, 4)), raw[5])

DeviceTimeAns_generate(self) ==
  ToBytesLE(13, 1) \o WideToBytesLE(self.seconds) \o ToBytesLE(self.fractional_second, 1)

\* the classes that inherit parse and generate from MACCommand
PlainCommands ==
  {"LinkCheckReq", "DutyCycleAns", "RXTimingSetupAns", "TXParamSetupAns", "DeviceTimeReq",
   "PingSlotInfoAns", "DevStatusReq"}

\* the class attribute CID
CID(cls) ==
  CASE cls \in {"LinkCheckReq", "LinkCheckAns"} -> 2
    [] cls \in {"LinkADRAns", "LinkADRReq"} -> 3
    [] cls \in {"DutyCycleAns", "DutyCycleReq"} -> 4
    [] cls \in {"RXParamSetupAns", "RXParamSetupReq"} -> 5
    [] cls \in {"DevStatusAns", "DevStatusReq"} -> 6
    [] cls \in {"NewChannelAns", "NewChannelReq"} -> 7
    [] cls \in {"RXTimingSetupAns", "RXTimingSetupReq"} -> 8
    [] cls \in {"TXParamSetupAns", "TXParamSetupReq"} -> 9
    [] cls \in {"DlChannelAns", "DlChannelReq"} -> 10
    [] cls \in {"DeviceTimeReq", "DeviceTimeAns"} -> 13
    [] cls \in {"PingSlotInfoReq", "PingSlotInfoAns"} -> 16
    [] cls \in {"PingSlotChannelAns", "PingSlotChannelReq"} -> 17
    [] cls \in {"BeaconFreqAns", "BeaconFreqReq"} -> 19

\* the class attribute SIZE
SIZE(cls) ==
  CASE cls \in PlainCommands -> 0
    [] cls \in {"LinkADRAns", "RXParamSetupAns", "NewChannelAns", "DlChannelAns",
                "PingSlotInfoReq", "BeaconFreqAns", "PingSlotChannelAns",
                "PingSlotChannelReq", "DutyCycleReq", "RXTimingSetupReq",
                "TXParamSetupReq"} -> 1
    [] cls \in {"DevStatusAns", "LinkCheckAns"} -> 2
    [] cls = "BeaconFreqReq" -> 3
    [] cls \in {"LinkADRReq", "RXParamSetupReq", "DlChannelReq"} -> 4
    [] cls \in {"NewChannelReq", "DeviceTimeAns"} -> 5

\* cmd_cls.parse(raw)
Command_parse(cls, raw) ==
  CASE cls \in PlainCommands -> [kind |-> cls]
    [] cls = "LinkADRAns" -> LinkADRAns_parse(raw)
    [] cls = "RXParamSetupAns" -> RXParamSetupAns_parse(raw)
    [] cls = "DevStatusAns" -> DevStatusAns_parse(raw)
    [] cls = "NewChannelAns" -> NewChannelAns_parse(raw)
    [] cls = "DlChannelAns" -> DlChannelAns_parse(raw)
    [] cls = "PingSlotInfoReq" -> PingSlotInfoReq_parse(raw)
    [] cls = "BeaconFreqAns" -> BeaconFreqAns_parse(raw)
    [] cls = "PingSlotChannelAns" -> PingSlotChannelAns_parse(raw)
    [] cls = "PingSlotChannelReq" -> PingSlotChannelReq_parse(raw)
    [] cls = "BeaconFreqReq" -> BeaconFreqReq_parse(raw)
    [] cls = "LinkCheckAns" -> LinkCheckAns_parse(raw)
    [] cls = "LinkADRReq" -> LinkADRReq_parse(raw)
    [] cls = "DutyCycleReq" -> DutyCycleReq_parse(raw)
    [] cls = "RXParamSetupReq" -> RXParamSetupReq_parse(raw)
    [] cls = "NewChannelReq" -> NewChannelReq_parse(raw)
    [] cls = "RXTimingSetupReq" -> RXTimingSetupReq_parse(raw)
    [] cls = "TXParamSetupReq" -> TXParamSetupReq_parse(raw)
    [] cls = "DlChannelReq" -> DlChannelReq_parse(raw)
    [] cls = "DeviceTimeAns" -> DeviceTimeAns_parse(raw)

\* self.generate()
Command_generate(self) ==
  CASE self.kind \in PlainCommands -> ToBytesLE(CID(self.kind), 1)
    [] self.kind = "LinkADRAns" -> LinkADRAns_generate(self)
    [] self.kind = "RXParamSetupAns" -> RXParamSetupAns_generate(self)
    [] self.kind = "DevStatusAns" -> DevStatusAns_generate(self)
    [] self.kind = "NewChannelAns" -> NewChannelAns_generate(self)
    [] self.kind = "DlChannelAns" -> DlChannelAns_generate(self)
    [] self.kind = "PingSlotInfoReq" -> PingSlotInfoReq_generate(self)
    [] self.kind = "BeaconFreqAns" -> BeaconFreqAns_generate(self)
    [] self.kind = "PingSlotChannelAns" -> PingSlotChannelAns_generate(self)
    [] self.kind = "PingSlotChannelReq" -> PingSlotChannelReq_generate(self)
    [] self.kind = "BeaconFreqReq" -> BeaconFreqReq_generate(self)
    [] self.kind = "LinkCheckAns" -> LinkCheckAns_generate(self)
    [] self.kind = "LinkADRReq" -> LinkADRReq_generate(self)
    [] self.kind = "DutyCycleReq" -> DutyCycleReq_generate(self)
    [] self.kind = "RXParamSetupReq" -> RXParamSetupReq_generate(self)
    [] self.kind = "NewChannelReq" -> NewChannelReq_generate(self)
    [] self.kind = "RXTimingSetupReq" -> RXTimingSetupReq_generate(self)
    [] self.kind = "TXParamSetupReq" -> TXParamSetupReq_generate(self)
    [] self.kind = "DlChannelReq" -> DlChannelReq_generate(self)
    [] self.kind = "DeviceTimeAns" -> DeviceTimeAns_generate(self)

---------------------------------------------------------------------------
(* mac_commands.py: MACCommandParser *)

\* MACCommandDirection
Directions == {"UP", "DOWN"}

\* not a key of the dispatch table: .get(command_id, None) is None
NoCommand == "None"

\* mac_commands_map[MACCommandDirection.UP].get(command_id, None)
UpCommands(command_id) ==
  CASE command_id = 2 -> "LinkCheckReq"
    [] command_id = 3 -> "LinkADRAns"
    [] command_id = 4 -> "DutyCycleAns"
    [] command_id = 5 -> "RXParamSetupAns"
    [] command_id = 6 -> "DevStatusAns"
    [] command_id = 7 -> "NewChannelAns"
    [] command_id = 8 -> "RXTimingSetupAns"
    [] command_id = 9 -> "TXParamSetupAns"
    [] command_id = 10 -> "DlChannelAns"
    [] command_id = 13 -> "DeviceTimeReq"
    [] command_id = 16 -> "PingSlotInfoReq"
    [] command_id = 17 -> "PingSlotChannelAns"
    [] command_id = 19 -> "BeaconFreqAns"
    [] OTHER -> NoCommand

\* mac_commands_map[MACCommandDirection.DOWN].get(command_id, None)
DownCommands(command_id) ==
  CASE command_id = 2 -> "LinkCheckAns"
    [] command_id = 3 -> "LinkADRReq"
    [] command_id = 4 -> "DutyCycleReq"
    [] command_id = 5 -> "RXParamSetupReq"
    [] command_id = 6 -> "DevStatusReq"
    [] command_id = 7 -> "NewChannelReq"
    [] command_id = 8 -> "RXTimingSetupReq"
    [] command_id = 9 -> "TXParamSetupReq"
    [] command_id = 10 -> "DlChannelReq"
    [] command_id = 13 -> "DeviceTimeAns"
    [] command_id = 16 -> "PingSlotInfoAns"
    [] command_id = 17 -> "PingSlotChannelReq"
    [] command_id = 19 -> "BeaconFreqReq"
    [] OTHER -> NoCommand

\* the lookup that would use the uplink table for both directions
mac_commands_map_OneTable(dir, command_id) == UpCommands(command_id)

\* MACCommandParser.mac_commands_map[direction].get(command_id, None)
mac_commands_map(dir, command_id) ==
  IF dir = "UP" THEN UpCommands(command_id)
  ELSE IF dir = "DOWN" THEN DownCommands(command_id)
  ELSE NoCommand

\* MACCommandParser.read: the SIZE bytes at pos, or MACCommandParseError when
\* fewer are left
MACCommandParser_read(cmd_cls, buf, pos) ==
  LET cmd_buffer == Slice(buf, pos, pos + SIZE(cmd_cls))
  IN IF Len(cmd_buffer) < SIZE(cmd_cls) THEN Raise("MACCommandParseError")
     ELSE [kind |-> "bytes", val |-> cmd_buffer]

\* MACCommandParser.create with the stream at pos, after the CID byte
MACCommandParser_create(buf, pos, command_id, dir) ==
  LET cmd_cls == mac_commands_map(dir, command_id)
  IN IF cmd_cls = NoCommand THEN Raise("MACCommandCreateError")
     ELSE LET cmd_buffer == MACCommandParser_read(cmd_cls, buf, pos)
          IN IF IsError(cmd_buffer) THEN cmd_buffer
             ELSE Command_parse(cmd_cls, cmd_buffer.val)

\* the loop of MACCommandParser.parse from stream position pos: the commands
\* appended, whether the except branch logged a warning, and the number of
\* create calls made
RECURSIVE ParseLoop(_, _, _, _, _)
ParseLoop(buf, pos, dir, commands_result, reads) ==
  IF pos >= Len(buf)
  THEN [kind |-> "list", items |-> commands_result, warned |-> FALSE, reads |-> reads]
  ELSE LET cmd == MACCommandParser_create(buf, pos + 1, buf[pos + 1], dir)
       IN IF IsError(cmd)
          THEN [kind |-> "list", items |-> commands_result, warned |-> TRUE,
                reads |-> reads + 1]
          ELSE ParseLoop(buf, pos + 1 + SIZE(cmd.kind), dir,
                         Append(commands_result, cmd), reads + 1)

\* MACCommandParser.parse
MACCommandParser_parse(commands_buffer, dir) == ParseLoop(commands_buffer, 0, dir, <<>>, 0)

---------------------------------------------------------------------------
(* The frames a caller builds: sample field values, boundaries included *)

\* longest frm_payload a caller puts in a frame
MaxFrmLen == 1

\* an n-byte buffer whose bytes differ from one another; seed shifts them
PatternBytes(n, seed) == [i \in 1..n |-> (seed + 37 * i) % 256]

DevAddrs == {<<0, 0>>, <<65535, 65535>>}

FCnts == {1, 65535}

\* 15 is MAX_F_OPTS_LEN
FOptsLens == {0, 1, 15}

FlagSets == {<<FALSE, FALSE, FALSE, FALSE>>, <<TRUE, TRUE, TRUE, TRUE>>,
             <<TRUE, FALSE, TRUE, FALSE>>, <<FALSE, TRUE, FALSE, TRUE>>}

Ports == {NoPort, 0, 1, 255}

FrmPayloads == {PatternBytes(n, 219) : n \in 0..MaxFrmLen}

FCtrlsUplink ==
  {FCtrlUplink_init(f[1], f[2], f[3], f[4], n) : f \in FlagSets, n \in FOptsLens}

FCtrlsDownlink ==
  {FCtrlDownlink_init(f[1], f[3], f[4], n) : f \in FlagSets, n \in FOptsLens}

FHDRsUplink ==
  {FHDR_init("FHDRUplink", a, c, n, PatternBytes(c.f_opts_len, 0)) :
     a \in DevAddrs, c \in FCtrlsUplink, n \in FCnts}

FHDRsDownlink ==
  {FHDR_init("FHDRDownlink", a, c, n, PatternBytes(c.f_opts_len, 0)) :
     a \in DevAddrs, c \in FCtrlsDownlink, n \in FCnts}

MACPayloadsUplink ==
  {MACPayload_init("MACPayloadUplink", h, p, f) :
     h \in FHDRsUplink, p \in Ports, f \in FrmPayloads}

MACPayloadsDownlink ==
  {MACPayload_init("MACPayloadDownlink", h, p, f) :
     h \in FHDRsDownlink, p \in Ports, f \in FrmPayloads}

JoinRequests ==
  {JoinRequest_init(<<0, 0, 0, 1>>, <<65535, 65535, 65535, 65535>>, 0),
   JoinRequest_init(<<258, 772, 1286, 1800>>, <<0, 1, 2, 3>>, 65535)}

Proprietaries == {Proprietary_init(PatternBytes(n, 5)) : n \in {0, 1, 18}}

Payloads ==
  MACPayloadsUplink \cup MACPayloadsDownlink \cup JoinRequests \cup Proprietaries

MHDRs == {MHDR_init(t, m) : t \in MTypes, m \in {0, 3}}

Mics == {<<1, 2, 3, 4>>}

---------------------------------------------------------------------------
(* The frame codec as the caller drives it *)

\* the caller holds nothing yet
Init ==
  /\ obj = None
  /\ key = <<>>
  /\ direction = None
  /\ wire = None
  /\ out = None
  /\ log = 0

\* PHYPayload(mhdr, payload, mic): the object, or the exception raised; each
\* behaviour follows one frame
NewPHYPayload ==
  /\ obj = None
  /\ \E mhdr \in MHDRs, payload \in Payloads, mic \in Mics :
    /\ obj' = PHYPayload_init(mhdr, payload, mic)
    /\ wire' = None
    /\ out' = None
    /\ UNCHANGED <<key, direction, log>>

\* wire = obj.generate()
GeneratePHYPayload ==
  /\ obj.kind = "PHYPayload"
  /\ wire' = PHYPayload_generate(obj)
  /\ out' = None
  /\ UNCHANGED <<obj, key, direction, log>>

\* out = PHYPayload.parse(wire)
ParsePHYPayload ==
  /\ obj.kind = "PHYPayload"
  /\ wire # None
  /\ out' = PHYPayload_parse(wire)
  /\ UNCHANGED <<obj, key, direction, wire, log>>

Next == NewPHYPayload \/ GeneratePHYPayload \/ ParsePHYPayload

Spec == Init /\ [][Next]_vars

---------------------------------------------------------------------------
(* Claims about the frame codec *)

\* the payload class PHYPayload.parse selects for a header type
PayloadKindOf(mtype) ==
  CASE mtype \in {"ConfirmedDataUp", "UnconfirmedDataUp"} -> "MACPayloadUplink"
    [] mtype \in {"ConfirmedDataDown", "UnconfirmedDataDown"} -> "MACPayloadDownlink"
    [] mtype = "JoinRequest" -> "JoinRequest"
    [] mtype = "Proprietary" -> "Proprietary"
    [] OTHER -> "none"

\* the frames C1 speaks of
RoundTripFrame(p) ==
  /\ p.kind = "PHYPayload"
  /\ p.payload.kind = PayloadKindOf(p.mhdr.mtype)
  /\ Len(p.mic) = 4
  /\ IsMACPayload(p.payload) =>
       /\ p.payload.fhdr.f_ctrl.f_opts_len \in 0..15
       /\ Len(p.payload.fhdr.f_opts) = p.payload.fhdr.f_ctrl.f_opts_len
       /\ (p.payload.f_port = NoPort => p.payload.frm_payload = <<>>)

\* C1: for every frame p of a data type, JoinRequest or Proprietary whose payload
\* is of the matching kind, with a 4-byte mic, f_opts of exactly f_opts_len bytes
\* and no frm_payload without a port, PHYPayload.parse(p.generate()) has the same
\* header, payload fields and mic as p.
C1_FrameRoundTrip ==
  (RoundTripFrame(obj) /\ out # None) => out = obj

\* C1's boundaries have been parsed back: 15 option bytes, port 0, empty payload
C1_Witness ==
  /\ RoundTripFrame(obj)
  /\ out = obj
  /\ IsMACPayload(obj.payload)
  /\ obj.payload.fhdr.f_ctrl.f_opts_len = 15
  /\ obj.payload.f_port = 0
  /\ obj.payload.frm_payload = <<>>

\* C10: every constructed PHYPayload has a payload whose concrete kind matches
\* its header type (uplink payload for the uplink data types, downlink payload for
\* the downlink data types, JoinRequest, Proprietary); any other combination
\* raises PHYPayloadError.
C10_PayloadMatchesHeader ==
  obj.kind = "PHYPayload" => obj.payload.kind = PayloadKindOf(obj.mhdr.mtype)

---------------------------------------------------------------------------
(* The MAC command layer as the caller drives it: it serialises commands   *)
(* of one direction into a buffer, a malformed tail may follow them, and   *)
(* MACCommandParser.parse decodes the buffer.                              *)

\* most commands a caller puts in one buffer
MaxCmds == 2

\* sample commands of each direction, every registered class and the ends of
\* the field ranges included
CommandsUp ==
  {[kind |-> c] : c \in {"LinkCheckReq", "DutyCycleAns", "RXTimingSetupAns",
                         "TXParamSetupAns", "DeviceTimeReq"}}
  \cup {LinkADRAns_init(TRUE, FALSE, TRUE), LinkADRAns_init(FALSE, TRUE, FALSE),
        RXParamSetupAns_init(FALSE, TRUE, FALSE), RXParamSetupAns_init(TRUE, FALSE, TRUE),
        DevStatusAns_init(255, 0), DevStatusAns_init(0, -32), DevStatusAns_init(1, 31),
        DevStatusAns_init(254, -1), DevStatusAns_init(7, 1),
        NewChannelAns_init(TRUE, FALSE), NewChannelAns_init(FALSE, TRUE),
        DlChannelAns_init(FALSE, TRUE), DlChannelAns_init(TRUE, FALSE),
        PingSlotInfoReq_init(7), PingSlotInfoReq_init(0),
        PingSlotChannelAns_init(TRUE, FALSE), PingSlotChannelAns_init(FALSE, TRUE),
        BeaconFreqAns_init(TRUE), BeaconFreqAns_init(FALSE)}

CommandsDown ==
  {[kind |-> c] : c \in {"DevStatusReq", "PingSlotInfoAns"}}
  \cup {LinkCheckAns_init(0, 1), LinkCheckAns_init(255, 255),
        LinkADRReq_init(15, 0, 65535, 15, 7), LinkADRReq_init(1, 5, 258, 1, 0),
        DutyCycleReq_init(255), DutyCycleReq_init(0),
        RXParamSetupReq_init(15, 7, 16777215), RXParamSetupReq_init(0, 0, 66051),
        NewChannelReq_init(255, 16777215, 15, 0), NewChannelReq_init(3, 66051, 0, 5),
        RXTimingSetupReq_init(15), RXTimingSetupReq_init(0),
        TXParamSetupReq_init(15, 1, 0), TXParamSetupReq_init(0, 0, 1),
        DlChannelReq_init(1, 66051), DlChannelReq_init(255, 16777215),
        DeviceTimeAns_init(<<65535, 65535>>, 255), DeviceTimeAns_init(<<0, 1>>, 0),
        PingSlotChannelReq_init(15, 16777215), PingSlotChannelReq_init(0, 66051),
        BeaconFreqReq_init(16777215), BeaconFreqReq_init(1)}

Commands(dir) == IF dir = "UP" THEN CommandsUp ELSE CommandsDown

\* what may follow the commands: a CID no table holds, alone or before a
\* command's bytes, or a registered CID with fewer body bytes than its SIZE
MalformedTails(dir) ==
  {<<1>>, <<11>>, <<255>>}
  \cup (IF dir = "UP" THEN {<<255, 2>>, <<6, 200>>, <<3>>}
        ELSE {<<255, 6>>, <<3, 1, 2>>, <<7>>})

\* c1.generate() + ... + cn.generate()
RECURSIVE StreamOf(_)
StreamOf(cmds) ==
  IF cmds = <<>> THEN <<>> ELSE Command_generate(Head(cmds)) \o StreamOf(Tail(cmds))

InitCmd ==
  /\ obj = <<>>
  /\ key = <<>>
  /\ direction \in Directions
  /\ wire = <<>>
  /\ out = None
  /\ log = 0

\* the caller appends c.generate() to its buffer
AppendCommand ==
  /\ out = None
  /\ Len(obj) < MaxCmds
  /\ wire = StreamOf(obj)
  /\ \E c \in Commands(direction) :
       /\ obj' = Append(obj, c)
       /\ wire' = wire \o Command_generate(c)
  /\ UNCHANGED <<key, direction, out, log>>

\* the buffer the caller received ends in a malformed command
AppendMalformed ==
  /\ out = None
  /\ wire = StreamOf(obj)
  /\ \E tail \in MalformedTails(direction) : wire' = wire \o tail
  /\ UNCHANGED <<obj, key, direction, out, log>>

\* out = MACCommandParser.parse(wire, direction); the except branch writes
\* one warning to the log
ParseCommands ==
  /\ out = None
  /\ LET r == MACCommandParser_parse(wire, direction)
     IN /\ out' = [kind |-> "list", items |-> r.items]
        /\ log' = log + (IF r.warned THEN 1 ELSE 0)
  /\ UNCHANGED <<obj, key, direction, wire>>

NextCmd == AppendCommand \/ AppendMalformed \/ ParseCommands

SpecCmd == InitCmd /\ [][NextCmd]_vars

---------------------------------------------------------------------------
(* Claims about the MAC command layer *)

\* the classes of a list of commands, in order
KindsOf(cmds) == [i \in 1..Len(cmds) |-> cmds[i].kind]

\* the list MACCommandParser.parse returns
Parsed(buf, dir) == MACCommandParser_parse(buf, dir).items

\* C2: for every registered command class and every command x of it with fields
\* in their wire ranges, MACCommandParser.parse(x.generate(), d) is a list of
\* exactly one command with the class and field values of x.
C2_CommandRoundTrip ==
  (Len(obj) = 1 /\ wire = StreamOf(obj) /\ out # None) => out.items = obj

\* C7: parsing the concatenation of n well-formed commands of direction d
\* returns n commands of the same classes in the same order, and
\* parse(a + b, d) is parse(a, d) followed by parse(b, d) for every complete
\* well-formed prefix a of the buffer.
C7_WellFormedStream ==
  out # None =>
    /\ wire = StreamOf(obj) => KindsOf(out.items) = KindsOf(obj)
    /\ \A i \in 0..Len(obj) :
         LET a == StreamOf(SubSeq(obj, 1, i))
         IN out.items = Parsed(a, direction) \o Parsed(SubSeq(wire, Len(a) + 1, Len(wire)), direction)

\* the buffer holds the commands of obj followed by a malformed tail
HasMalformedTail == wire # StreamOf(obj)

\* C8: parse makes at most len(buffer) command reads and returns a list; when
\* k well-formed commands are followed by an unknown CID or a truncated
\* command, the list holds exactly those k commands in order.
C8_ErrorPolicy ==
  /\ MACCommandParser_parse(wire, direction).reads <= Len(wire)
  /\ out # None =>
       /\ out.kind = "list"
       /\ HasMalformedTail => KindsOf(out.items) = KindsOf(obj)

\* C9: on a malformed stream the outcome returned to the caller is never the
\* outcome of the same buffer with the malformed tail removed.
C9_MalformedReported ==
  (out # None /\ HasMalformedTail) =>
    out # [kind |-> "list", items |-> Parsed(StreamOf(obj), direction)]

---------------------------------------------------------------------------
(* The payload cipher as the caller drives it: it picks a payload and the  *)
(* frame fields the key stream depends on, encrypts, and decrypts what it  *)
(* got.                                                                    *)

Keys == {PatternBytes(16, 1), ZeroBytes(16)}

\* payload lengths on both sides of the 16-byte block boundaries
CipherLens == {0, 1, 15, 16, 17, 33}

InitCipher ==
  /\ obj = None
  /\ key \in Keys
  /\ direction \in {0, 1}
  /\ wire = None
  /\ out = None
  /\ log = 0

ChooseFrmPayload ==
  /\ obj = None
  /\ \E n \in CipherLens, a \in DevAddrs, c \in FCnts :
       obj' = [kind |-> "FrmPayload", frm_payload |-> PatternBytes(n, 101),
               dev_addr |-> a, counter |-> c]
  /\ UNCHANGED <<key, direction, wire, out, log>>

\* wire = encrypt_frm_payload(frm_payload, key, dev_addr, counter, direction)
EncryptFrmPayload ==
  /\ obj # None
  /\ wire = None
  /\ wire' = Bytes(encrypt_frm_payload(obj.frm_payload, key, obj.dev_addr, obj.counter, direction))
  /\ UNCHANGED <<obj, key, direction, out, log>>

\* out = decrypt_frm_payload(wire, key, dev_addr, counter, direction)
DecryptFrmPayload ==
  /\ wire # None
  /\ out = None
  /\ out' = Bytes(decrypt_frm_payload(wire.val, key, obj.dev_addr, obj.counter, direction))
  /\ UNCHANGED <<obj, key, direction, wire, log>>

NextCipher == ChooseFrmPayload \/ EncryptFrmPayload \/ DecryptFrmPayload

SpecCipher == InitCipher /\ [][NextCipher]_vars

\* C3: decrypt_frm_payload(encrypt_frm_payload(P, ...), ...) = P for every key,
\* dev_addr, counter, direction and payload P (lengths 0, 1, 15, 16, 17, 33), the
\* output is as long as the input, and encrypt_frm_payload returns what
\* decrypt_frm_payload returns on the same input.
C3_CipherInvolution ==
  /\ wire # None =>
       /\ Len(wire.val) = Len(obj.frm_payload)
       /\ wire.val = decrypt_frm_payload(obj.frm_payload, key, obj.dev_addr, obj.counter, direction)
  /\ out # None =>
       /\ out.val = obj.frm_payload
       /\ Len(out.val) = Len(wire.val)

\* a 33-byte payload, three key stream blocks, came back from its ciphertext
C3_Witness ==
  /\ out # None
  /\ Len(obj.frm_payload) = 33
  /\ out.val = obj.frm_payload
  /\ wire.val # obj.frm_payload

---------------------------------------------------------------------------
(* Join-accept as the caller drives it: the network builds a JoinAccept    *)
(* and serialises it under the application key, one byte of the wire body  *)
(* may change on the way, and the device parses what arrives.              *)

\* what is added to the byte that changes
CorruptDeltas == {1, 128}

JoinAccepts ==
  {JoinAccept_init(n, i, a, DLSettings_init(o, d), r, c) :
     n \in {0, 16777215}, i \in {19}, a \in DevAddrs, o \in {0, 7}, d \in {0, 15},
     r \in {0, 255}, c \in {<<>>, PatternBytes(16, 9)}}

InitJoin ==
  /\ obj = None
  /\ key \in Keys
  /\ direction = None
  /\ wire = None
  /\ out = None
  /\ log = 0

NewJoinAccept ==
  /\ obj = None
  /\ obj' \in JoinAccepts
  /\ UNCHANGED <<key, direction, wire, out, log>>

\* wire = obj.generate(key)
GenerateJoinAccept ==
  /\ obj # None
  /\ wire = None
  /\ out = None
  /\ LET r == JoinAccept_generate(obj, key)
     IN IF IsError(r) THEN out' = r /\ wire' = wire
        ELSE wire' = r.val /\ out' = out
  /\ UNCHANGED <<obj, key, direction, log>>

\* the wire as obj.generate(key) left it
Untouched == wire = JoinAccept_generate(obj, key).val

\* one byte of the wire body (everything after the header byte) changes
CorruptWireBody ==
  /\ wire # None
  /\ out = None
  /\ Untouched
  /\ \E i \in 2..Len(wire), d \in CorruptDeltas :
       wire' = [wire EXCEPT ![i] = (wire[i] + d) % 256]
  /\ UNCHANGED <<obj, key, direction, out, log>>

\* out = JoinAccept.parse(wire, key)
ParseJoinAccept ==
  /\ wire # None
  /\ out = None
  /\ out' = JoinAccept_parse(wire, key)
  /\ UNCHANGED <<obj, key, direction, wire, log>>

NextJoin == NewJoinAccept \/ GenerateJoinAccept \/ CorruptWireBody \/ ParseJoinAccept

SpecJoin == InitJoin /\ [][NextJoin]_vars

\* the plaintext of a join-accept: app_nonce(3) net_id(3) dev_addr(4)
\* DLSettings(1) rx_delay(1) cf_list, little-endian
JoinAcceptPlain(j) ==
  <<j.app_nonce % 256, (j.app_nonce \div 256) % 256, j.app_nonce \div 65536,
    j.net_id % 256, (j.net_id \div 256) % 256, j.net_id \div 65536,
    j.dev_addr[2] % 256, j.dev_addr[2] \div 256, j.dev_addr[1] % 256, j.dev_addr[1] \div 256,
    j.dl_settings.rx1_dr_offset * 16 + j.dl_settings.rx2_datarate, j.rx_delay>> \o j.cf_list

\* C4: for every JoinAccept J with fields in range and a cf_list of 0 or 16
\* bytes, and every key k, JoinAccept.parse(J.generate(k), k) has the field
\* values of J; the wire body is the block cipher's decryption of
\* plaintext||MIC, so that its encryption gives plaintext||MIC back.
C4_JoinAcceptRoundTrip ==
  /\ (wire # None /\ Untouched) =>
       /\ wire[1] = 32
       /\ Len(wire) = 1 + Len(JoinAcceptPlain(obj)) + 4
       /\ EcbEncrypt(key, Tail(wire)) =
            JoinAcceptPlain(obj) \o generate_mic(key, <<32>> \o JoinAcceptPlain(obj))
  /\ (out # None /\ Untouched) => out = obj

\* a join-accept with a 16-byte cf_list and the largest field values came back
C4_Witness ==
  /\ out # None
  /\ Untouched
  /\ out = obj
  /\ Len(obj.cf_list) = 16
  /\ obj.dl_settings = DLSettings_init(7, 15)
  /\ obj.app_nonce = 16777215

\* the MIC check of JoinAccept.parse passes on this wire under this key
MicMatches(raw, k) ==
  LET plain == EcbEncrypt(k, Tail(raw))
  IN TakeLast(plain, 4) = generate_mic(k, <<raw[1]>> \o DropLast(plain, 4))

\* C5: JoinAccept.parse returns fields only if the last 4 bytes of the
\* recovered plaintext are the MIC recomputed over header byte + plaintext; on
\* a mismatch it raises MICError; so a wire body with one byte changed fails
\* with MICError instead of parsing to other fields.
C5_JoinAcceptIntegrity ==
  out # None =>
    /\ out.kind = "JoinAccept" => MicMatches(wire, key)
    /\ ~MicMatches(wire, key) => out = Raise("MICError")
    /\ ~Untouched => out = Raise("MICError")

\* a corrupted join-accept was parsed and refused
C5_Witness ==
  /\ out = Raise("MICError")
  /\ ~Untouched
  /\ Len(wire) = 33

---------------------------------------------------------------------------
(* MIC verification as the caller drives it: a frame arrives whose mic was *)
(* computed under some key, or is arbitrary, and the caller verifies it    *)
(* under its own key.                                                      *)

MicPayloads ==
  {MACPayload_init(IF up THEN "MACPayloadUplink" ELSE "MACPayloadDownlink",
                   FHDR_init(IF up THEN "FHDRUplink" ELSE "FHDRDownlink", a,
                             IF up THEN FCtrlUplink_init(TRUE, FALSE, FALSE, FALSE, n)
                             ELSE FCtrlDownlink_init(TRUE, FALSE, FALSE, n),
                             c, PatternBytes(n, 0)),
                   p, IF p = NoPort THEN <<>> ELSE PatternBytes(MaxFrmLen, 219)) :
     up \in BOOLEAN, a \in DevAddrs, c \in FCnts, n \in {0, 15}, p \in {NoPort, 0, 1}}
  \cup JoinRequests \cup {Proprietary_init(<<1, 2>>)}

\* the header types a caller pairs with a payload
MicHeadersOf(payload) ==
  IF IsMACPayload(payload) THEN {MHDR_init(t, 0) : t \in {"UnconfirmedDataUp", "ConfirmedDataDown"}}
  ELSE {MHDR_init(payload.kind, 0)}

\* the mic a frame arrives with: computed under a key, or arbitrary
MicsFor(mhdr, payload) ==
  {<<1, 2, 3, 4>>}
  \cup (IF IsMACPayload(payload) THEN {generate_mic_mac_payload(mhdr, payload, k) : k \in Keys}
        ELSE IF payload.kind = "JoinRequest"
             THEN {generate_mic_join_request(mhdr, payload, k) : k \in Keys}
             ELSE {})

InitMic ==
  /\ obj = None
  /\ key \in Keys
  /\ direction = None
  /\ wire = None
  /\ out = None
  /\ log = 0

ReceiveFrame ==
  /\ obj = None
  /\ \E payload \in MicPayloads :
       \E mhdr \in MicHeadersOf(payload) :
         \E mic \in MicsFor(mhdr, payload) : obj' = PHYPayload_init(mhdr, payload, mic)
  /\ UNCHANGED <<key, direction, wire, out, log>>

\* out = verify_mic_phy_payload(obj, key)
VerifyMic ==
  /\ obj # None
  /\ out = None
  /\ out' = verify_mic_phy_payload(obj, key)
  /\ UNCHANGED <<obj, key, direction, wire, log>>

NextMic == ReceiveFrame \/ VerifyMic

SpecMic == InitMic /\ [][NextMic]_vars

\* B0 of a data frame: 0x49, four zero bytes, the direction byte, dev_addr
\* (4, little-endian), f_cnt zero-extended to 4 bytes (little-endian), 0x00,
\* and the byte length of header + payload
BlockB0(p, len) ==
  <<73, 0, 0, 0, 0, IF p.kind = "MACPayloadUplink" THEN 0 ELSE 1,
    p.fhdr.dev_addr[2] % 256, p.fhdr.dev_addr[2] \div 256,
    p.fhdr.dev_addr[1] % 256, p.fhdr.dev_addr[1] \div 256,
    p.fhdr.f_cnt % 256, p.fhdr.f_cnt \div 256, 0, 0, 0, len>>

\* the mic the claim expects on a frame under key k
ExpectedMic(f, k) ==
  LET msg == MHDR_generate(f.mhdr) \o Payload_generate(f.payload)
  IN IF IsMACPayload(f.payload)
     THEN SubSeq(aes128_cmac(k, BlockB0(f.payload, Len(msg)) \o msg), 1, 4)
     ELSE SubSeq(aes128_cmac(k, msg), 1, 4)

\* C6: for a data frame, verify_mic_phy_payload(p, k) is True exactly when p.mic
\* is the first 4 bytes of CMAC_k(B0 || header byte || payload bytes); for a
\* JoinRequest frame exactly when it is the first 4 bytes of CMAC_k(header
\* byte || join-request bytes); a mic produced by generate_mic_mac_payload or
\* generate_mic_join_request with k verifies with k.
C6_MicVerification ==
  (out # None /\ obj.payload.kind # "Proprietary") =>
    /\ out.kind = "bool"
    /\ out.val = (obj.mic = ExpectedMic(obj, key))
    /\ (IsMACPayload(obj.payload)
          /\ obj.mic = generate_mic_mac_payload(obj.mhdr, obj.payload, key)) => out.val
    /\ (obj.payload.kind = "JoinRequest"
          /\ obj.mic = generate_mic_join_request(obj.mhdr, obj.payload, key)) => out.val

\* a downlink data frame signed under the caller's key was verified, and so
\* was one signed under another key
C6_Witness ==
  /\ out = Bool(TRUE)
  /\ obj.payload.kind = "MACPayloadDownlink"
  /\ obj.payload.fhdr.f_ctrl.f_opts_len = 15
  /\ obj.mic # <<1, 2, 3, 4>>

---------------------------------------------------------------------------
(* Parsing of received buffers: a buffer of any length and content arrives *)
(* and the caller hands it to PHYPayload.parse, or hands a payload part to *)
(* MACPayload.parse of one direction.                                      *)

\* most bytes that follow the frame counter in a sampled payload part
MaxAfterFCnt == 3

\* header bytes: every mtype, with the reserved bits and major clear and set
HeaderBytes == {32 * t + low : t \in 0..7, low \in {0, 31}}

\* control bytes: no options, one, more than MaxAfterFCnt, the most; flags
\* clear and set
CtrlBytes == {0, 1, 4, 15, 241, 255}

\* payload parts: too short for a data frame, and data-shaped ones
\* dev_addr(4) ctrl(1) f_cnt(2) followed by 0..MaxAfterFCnt bytes, and the
\* lengths around a join-request's 18 bytes
PayloadParts ==
  {PatternBytes(n, 3) : n \in {0, 1, 6, 17, 18, 19}}
  \cup {<<1, 2, 3, 4, c, 5, 6>> \o PatternBytes(n, 77) : c \in CtrlBytes, n \in 0..MaxAfterFCnt}

RawFrames ==
  {PatternBytes(n, 11) : n \in 0..4}
  \cup {<<h>> \o PatternBytes(n, 11) : h \in HeaderBytes, n \in 0..3}
  \cup {<<h>> \o p \o <<9, 8, 7, 6>> : h \in HeaderBytes, p \in PayloadParts}

InitBuf ==
  /\ obj = None
  /\ key = <<>>
  /\ direction = None
  /\ wire = None
  /\ out = None
  /\ log = 0

ReceiveFrameBuffer ==
  /\ wire = None
  /\ \E raw \in RawFrames : wire' = Bytes(raw)
  /\ obj' = [kind |-> "call", fn |-> "PHYPayload.parse"]
  /\ UNCHANGED <<key, direction, out, log>>

ReceivePayloadPart ==
  /\ wire = None
  /\ \E raw \in PayloadParts : wire' = Bytes(raw)
  /\ \E cls \in {"MACPayloadUplink", "MACPayloadDownlink"} :
       obj' = [kind |-> "call", fn |-> cls]
  /\ UNCHANGED <<key, direction, out, log>>

\* out = PHYPayload.parse(wire)
ParseFrameBuffer ==
  /\ wire # None
  /\ out = None
  /\ obj.fn = "PHYPayload.parse"
  /\ out' = PHYPayload_parse(wire.val)
  /\ UNCHANGED <<obj, key, direction, wire, log>>

\* out = MACPayloadUplink.parse(wire) or MACPayloadDownlink.parse(wire)
ParsePayloadPart ==
  /\ wire # None
  /\ out = None
  /\ obj.fn # "PHYPayload.parse"
  /\ out' = MACPayload_parse(obj.fn, wire.val)
  /\ UNCHANGED <<obj, key, direction, wire, log>>

NextBuf == ReceiveFrameBuffer \/ ReceivePayloadPart \/ ParseFrameBuffer \/ ParsePayloadPart

SpecBuf == InitBuf /\ [][NextBuf]_vars

\* the mtype value in bits 7..5 of a header byte
MTypeBits(h) == h \div 32

\* C11: PHYPayload.parse raises ParseMessageError for a buffer shorter than 5
\* bytes; for a longer buffer it raises PHYPayloadError when the header type is
\* JoinAccept or RFU, ParseMessageError when the type is a data type and the
\* payload part is shorter than 7 bytes or the type is JoinRequest and the
\* payload part is not 18 bytes; in every other case it returns a frame whose
\* header is decoded from byte 0 and whose mic is the last 4 bytes.
C11_ParseErrorOutcomes ==
  (out # None /\ obj.fn = "PHYPayload.parse") =>
    LET raw  == wire.val
        part == Len(raw) - 5
    IN IF Len(raw) < 5 THEN out = Raise("ParseMessageError")
       ELSE IF MTypeBits(raw[1]) \in {1, 6} THEN out = Raise("PHYPayloadError")
       ELSE IF MTypeBits(raw[1]) \in 2..5 /\ part < 7 THEN out = Raise("ParseMessageError")
       ELSE IF MTypeBits(raw[1]) = 0 /\ part # 18 THEN out = Raise("ParseMessageError")
       ELSE /\ out.kind = "PHYPayload"
            /\ out.mhdr.mtype = MTypeNames[MTypeBits(raw[1]) + 1]
            /\ out.mhdr.major = raw[1] % 4
            /\ out.mic = SubSeq(raw, Len(raw) - 3, Len(raw))

\* a join-request buffer one byte too long was refused
C11_Witness ==
  /\ out = Raise("ParseMessageError")
  /\ obj.fn = "PHYPayload.parse"
  /\ Len(wire.val) = 24
  /\ MTypeBits(wire.val[1]) = 0

\* C12: every data frame PHYPayload.parse returns and every MACPayload
\* MACPayload.parse returns has len(fhdr.f_opts) = fhdr.f_ctrl.f_opts_len; an
\* input whose control byte declares more option bytes than remain after the
\* frame counter is rejected with an error.
C12_TruncatedOptionsRejected ==
  out # None =>
    LET p == IF out.kind = "PHYPayload" THEN out.payload ELSE out
    IN IsMACPayload(p) => Len(p.fhdr.f_opts) = p.fhdr.f_ctrl.f_opts_len

---------------------------------------------------------------------------
(* Further properties of the frame codec *)

\* the MACPayload objects a state holds: the constructed frame's and the
\* decoded frame's
HeldMACPayloads ==
  {x.payload : x \in {y \in {obj, out} : y.kind = "PHYPayload" /\ IsMACPayload(y.payload)}}

\* C13: in every MACPayload, constructed directly or decoded, an absent port
\* implies an empty frm_payload, so that MACPayload.generate never omits bytes
\* the object holds.
C13_AbsentPortEmptyBuffer ==
  \A p \in HeldMACPayloads : p.f_port = NoPort => p.frm_payload = <<>>

---------------------------------------------------------------------------
(* The one-byte fields as the caller drives them: it constructs a          *)
(* DevStatusAns, an FCtrl of either direction or an MHDR, serialises it,   *)
(* bits the decoder does not look at may change, and it parses the bytes.  *)

\* DevStatusAns over the whole margin range
DevStatusAnsSamples == {DevStatusAns_init(b, m) : b \in {0, 255}, m \in -32..31}

FCtrlSamplesUplink ==
  {FCtrlUplink_init(a, r, k, b, n) : a \in BOOLEAN, r \in BOOLEAN, k \in BOOLEAN,
                                     b \in BOOLEAN, n \in 0..15}

FCtrlSamplesDownlink ==
  {FCtrlDownlink_init(a, k, p, n) : a \in BOOLEAN, k \in BOOLEAN, p \in BOOLEAN, n \in 0..15}

\* what a caller may pass as mtype and major, valid or not
MTypeArgs == MTypes \cup {"NotAnMType"}

MajorArgs == -1..4

InitField ==
  /\ obj = None
  /\ key = <<>>
  /\ direction = None
  /\ wire = None
  /\ out = None
  /\ log = 0

NewDevStatusAns ==
  /\ obj = None
  /\ obj' \in DevStatusAnsSamples
  /\ UNCHANGED <<key, direction, wire, out, log>>

NewFCtrl ==
  /\ obj = None
  /\ obj' \in FCtrlSamplesUplink \cup FCtrlSamplesDownlink
  /\ UNCHANGED <<key, direction, wire, out, log>>

\* obj = MHDR(mtype, major); direction keeps the arguments of the call
NewMHDR ==
  /\ obj = None
  /\ \E t \in MTypeArgs, m \in MajorArgs :
       /\ obj' = MHDR_init(t, m)
       /\ direction' = [kind |-> "args", mtype |-> t, major |-> m]
  /\ UNCHANGED <<key, wire, out, log>>

\* obj.generate()
Field_generate(self) ==
  CASE self.kind = "DevStatusAns" -> DevStatusAns_generate(self)
    [] self.kind = "MHDR" -> MHDR_generate(self)
    [] OTHER -> FCtrl_generate(self)

\* cls.parse(raw) for the class of the object; a MAC command's parse gets the
\* bytes after the CID
Field_parse(cls, raw) ==
  CASE cls = "DevStatusAns" -> DevStatusAns_parse(Tail(raw))
    [] cls = "MHDR" -> MHDR_parse(raw)
    [] cls = "FCtrlUplink" -> FCtrlUplink_parse(raw)
    [] OTHER -> FCtrlDownlink_parse(raw)

GenerateField ==
  /\ obj.kind \in {"DevStatusAns", "MHDR", "FCtrlUplink", "FCtrlDownlink"}
  /\ wire = None
  /\ wire' = Bytes(Field_generate(obj))
  /\ UNCHANGED <<obj, key, direction, out, log>>

\* the bits of the byte that the claims call unused: bit 6 of a downlink
\* FCtrl, bits 4..2 of an MHDR
UnusedBits(cls) ==
  CASE cls = "FCtrlDownlink" -> {64}
    [] cls = "MHDR" -> {4, 8, 16}
    [] OTHER -> {}

\* one unused bit of the serialised byte is set
SetUnusedBit ==
  /\ wire # None
  /\ out = None
  /\ \E b \in UnusedBits(obj.kind) :
       /\ BitAnd(wire.val[1], b) = 0
       /\ wire' = Bytes(<<wire.val[1] + b>>)
  /\ UNCHANGED <<obj, key, direction, out, log>>

ParseField ==
  /\ wire # None
  /\ out = None
  /\ out' = Field_parse(obj.kind, wire.val)
  /\ UNCHANGED <<obj, key, direction, wire, log>>

NextField == NewDevStatusAns \/ NewFCtrl \/ NewMHDR \/ GenerateField \/ SetUnusedBit \/ ParseField

SpecField == InitField /\ [][NextField]_vars

\* C14: DevStatusAns.parse returns raw & 0x1F when bit 5 of the margin byte is
\* clear and -((raw & 0x1F) + 1) when it is set; generate encodes every
\* non-negative margin with bit 5 clear and every negative margin m with bit 5
\* set and magnitude -m - 1; so parse of the generated body returns the same
\* margin for every margin in -32..31.
C14_MarginSignMagnitude ==
  obj.kind = "DevStatusAns" =>
    /\ wire # None =>
         wire.val = <<6, obj.battery,
                      IF obj.margin >= 0 THEN obj.margin ELSE 32 + (-obj.margin - 1)>>
    /\ out # None =>
         /\ out.margin = IF (wire.val[3] \div 32) % 2 = 0 THEN wire.val[3] % 32
                         ELSE -((wire.val[3] % 32) + 1)
         /\ out = obj

\* C15: FCtrlUplink.generate puts ADR at bit 7, ADRAckReq at bit 6, ACK at bit
\* 5, ClassB at bit 4 and f_opts_len in bits 3..0; FCtrlDownlink.generate puts
\* ADR at bit 7, ACK at bit 5, FPending at bit 4, f_opts_len in bits 3..0 and
\* leaves bit 6 clear; parse(generate(x)) has the flags and length of x, and
\* FCtrlDownlink.parse gives the same result when only bit 6 differs.
C15_FCtrlLayout ==
  /\ (obj.kind = "FCtrlUplink" /\ wire # None) =>
       wire.val = <<128 * BoolToInt(obj.adr) + 64 * BoolToInt(obj.adr_ack_req)
                      + 32 * BoolToInt(obj.ack) + 16 * BoolToInt(obj.class_b) + obj.f_opts_len>>
  /\ (obj.kind = "FCtrlDownlink" /\ wire # None) =>
       LET byte == 128 * BoolToInt(obj.adr) + 32 * BoolToInt(obj.ack)
                     + 16 * BoolToInt(obj.f_pending) + obj.f_opts_len
       IN wire.val \in {<<byte>>, <<byte + 64>>}
  /\ (obj.kind = "FCtrlDownlink" /\ wire # None /\ wire.val = Field_generate(obj)) =>
       (wire.val[1] \div 64) % 2 = 0
  /\ (obj.kind \in {"FCtrlUplink", "FCtrlDownlink"} /\ out # None) => out = obj

\* a downlink FCtrl with all flags set and 15 option bytes was parsed back
\* from a byte whose bit 6 had been set
C15_Witness ==
  /\ obj = FCtrlDownlink_init(TRUE, TRUE, TRUE, 15)
  /\ wire # None
  /\ wire.val = <<255>>
  /\ out = obj

\* what C16 says of one state: the outcome of the construction, the generated
\* byte, and the parsed header
MHDRState ==
  direction.kind = "args" =>
    /\ IF direction.mtype \in MTypes /\ direction.major \in 0..3
       THEN obj = [kind |-> "MHDR", mtype |-> direction.mtype, major |-> direction.major]
       ELSE obj = Raise("MHDRError")
    /\ wire # None =>
         /\ wire.val[1] \div 32 = MTypeValue(obj.mtype)
         /\ wire.val[1] % 4 = obj.major
         /\ wire.val = Field_generate(obj) => (wire.val[1] \div 4) % 8 = 0
    /\ out # None => (out.kind = "MHDR" /\ out.mtype = obj.mtype /\ out.major = obj.major)

\* what C16 says of one step: no operation changes a constructed header
MHDRStep == obj.kind = "MHDR" => obj' = obj

\* C16: MHDR construction raises MHDRError when mtype is not one of the 8 MType
\* values or major is not an integer in 0..3; generate yields the byte
\* (mtype << 5) | major with bits 4..2 equal to 0; MHDR.parse(h.generate()) has
\* the mtype and major of h; MHDR.parse ignores bits 4..2 of its input; and no
\* operation changes mtype or major after construction.
C16_MHDR == [](MHDRState) /\ [][MHDRStep]_vars

\* a Proprietary header of major 3 was parsed back from a byte whose reserved
\* bits had all been set
C16_Witness ==
  /\ obj = MHDR_init("Proprietary", 3)
  /\ wire # None
  /\ wire.val = <<255>>
  /\ out = obj

---------------------------------------------------------------------------
(* common.py: session keys *)

\* TypeOfKey(name).value
TypeOfKeyValue(name) == IF name = "NwkSKey" THEN 1 ELSE 2

\* generate_key
generate_key(app_key, type_of_key, app_nonce, net_id, dev_nonce) ==
  LET message == ToBytesLE(TypeOfKeyValue(type_of_key), 1) \o ToBytesLE(app_nonce, 3)
                   \o ToBytesLE(net_id, 3) \o ToBytesLE(dev_nonce, 2) \o ZeroBytes(7)
  IN aes128_encrypt(app_key, message)

\* generate_nwk_s_key
generate_nwk_s_key(app_key, app_nonce, net_id, dev_nonce) ==
  generate_key(app_key, "NwkSKey", app_nonce, net_id, dev_nonce)

\* the derivation that would use the network key's role tag
generate_app_s_key_NwkTag(app_key, app_nonce, net_id, dev_nonce) ==
  generate_key(app_key, "NwkSKey", app_nonce, net_id, dev_nonce)

\* generate_app_s_key
generate_app_s_key(app_key, app_nonce, net_id, dev_nonce) ==
  generate_key(app_key, "AppSKey", app_nonce, net_id, dev_nonce)

---------------------------------------------------------------------------
(* Session keys as the caller derives them after a join: the join          *)
(* parameters are fixed, then each of the two keys is derived.             *)

JoinParameters ==
  {[kind |-> "JoinParameters", app_nonce |-> a, net_id |-> n, dev_nonce |-> d] :
     a \in {0, 1, 66051, 16777215}, n \in {0, 19, 16777215}, d \in {0, 258, 65535}}

InitKey ==
  /\ obj = None
  /\ key \in Keys
  /\ direction = None
  /\ wire = None
  /\ out = None
  /\ log = 0

ChooseJoinParameters ==
  /\ obj = None
  /\ obj' \in JoinParameters
  /\ UNCHANGED <<key, direction, wire, out, log>>

\* wire = generate_nwk_s_key(key, app_nonce, net_id, dev_nonce)
DeriveNwkSKey ==
  /\ obj # None
  /\ wire = None
  /\ wire' = generate_nwk_s_key(key, obj.app_nonce, obj.net_id, obj.dev_nonce)
  /\ UNCHANGED <<obj, key, direction, out, log>>

\* out = generate_app_s_key(key, app_nonce, net_id, dev_nonce)
DeriveAppSKey ==
  /\ obj # None
  /\ out = None
  /\ out' = generate_app_s_key(key, obj.app_nonce, obj.net_id, obj.dev_nonce)
  /\ UNCHANGED <<obj, key, direction, wire, log>>

NextKey == ChooseJoinParameters \/ DeriveNwkSKey \/ DeriveAppSKey

SpecKey == InitKey /\ [][NextKey]_vars

\* the block the claim lays out: role tag, app_nonce (3, LE), net_id (3, LE),
\* dev_nonce (2, LE), 7 zero bytes
KeyBlock(tag, p) ==
  <<tag, p.app_nonce % 256, (p.app_nonce \div 256) % 256, p.app_nonce \div 65536,
    p.net_id % 256, (p.net_id \div 256) % 256, p.net_id \div 65536,
    p.dev_nonce % 256, p.dev_nonce \div 256, 0, 0, 0, 0, 0, 0, 0>>

\* C17: generate_nwk_s_key and generate_app_s_key return the single-block
\* encryption under app_key of role tag (1 network, 2 application) || app_nonce
\* (3, LE) || net_id (3, LE) || dev_nonce (2, LE) || 7 zero bytes, and the two
\* keys derived from the same parameters are never equal.
C17_SessionKeys ==
  /\ wire # None => wire = Bytes(EncryptBlock(key, KeyBlock(1, obj)))
  /\ out # None => out = Bytes(EncryptBlock(key, KeyBlock(2, obj)))
  /\ (wire # None /\ out # None) => wire # out

\* both keys were derived from the largest parameters
C17_Witness ==
  /\ wire # None
  /\ out # None
  /\ wire.val # out.val
  /\ Len(wire.val) = 16
  /\ obj.app_nonce = 16777215
  /\ obj.dev_nonce = 65535

---------------------------------------------------------------------------
(* common.py: device addresses.  A 32-bit address is held as two 16-bit    *)
(* limbs, most significant first, like dev_addr in the frames.             *)

\* net_type_to_params[net_id_type]: (prefix, prefix_len, nwk_id_len)
net_type_to_params(net_id_type) ==
  CASE net_id_type = 0 -> <<0, 1, 6>>
    [] net_id_type = 1 -> <<2, 2, 6>>
    [] net_id_type = 2 -> <<6, 3, 9>>
    [] net_id_type = 3 -> <<14, 4, 11>>
    [] net_id_type = 4 -> <<30, 5, 12>>
    [] net_id_type = 5 -> <<62, 6, 13>>
    [] net_id_type = 6 -> <<126, 7, 15>>
    [] net_id_type = 7 -> <<254, 8, 17>>

\* the limbs of (top << shift) + low, for low < 2^shift and shift < 32
WideCompose(top, shift, low) ==
  IF shift >= 16
  THEN <<ShiftLeft(top, shift - 16) + ShiftRight(low, 16), low % 65536>>
  ELSE <<ShiftRight(top, 16 - shift), ShiftLeft(top % Pow2(16 - shift), shift) + low>>

\* the masking that would keep all 21 low bits of net_id
NwkIdOf_Unmasked(net_id, nwk_id_len) == net_id % Pow2(21)

\* nwk_id = net_id & (2**nwk_id_len - 1)
NwkIdOf(net_id, nwk_id_len) == net_id % Pow2(nwk_id_len)

\* generate_dev_addr_for_network, with nwk_addr the value randint returned
generate_dev_addr_for_network(net_id, nwk_addr) ==
  LET net_id_type == ShiftRight(net_id, 21)
  IN IF net_id_type > 7 THEN Raise("LoRaError")
     ELSE LET params       == net_type_to_params(net_id_type)
              prefix       == params[1]
              prefix_len   == params[2]
              nwk_id_len   == params[3]
              nwk_addr_len == 32 - nwk_id_len - prefix_len
              nwk_id       == NwkIdOf(net_id, nwk_id_len)
          IN [kind |-> "int", limbs |->
                WideCompose(ShiftLeft(prefix, nwk_id_len) + nwk_id, nwk_addr_len, nwk_addr)]

\* the number of bits randint fills for this net_id
AddrLenOf(net_id) ==
  LET params == net_type_to_params(ShiftRight(net_id, 21))
  IN 32 - params[3] - params[2]

---------------------------------------------------------------------------
(* Device-address allocation as the caller drives it: it fixes a net_id    *)
(* and asks for an address twice.                                          *)

\* net_ids of every type, with the network-id bits clear, set, and with the
\* bit above them set; and net_ids that do not fit 3 bytes
NetIds ==
  UNION {{ShiftLeft(t, 21), ShiftLeft(t, 21) + 1,
          ShiftLeft(t, 21) + Pow2(net_type_to_params(t)[3]) - 1,
          ShiftLeft(t, 21) + Pow2(net_type_to_params(t)[3]),
          ShiftLeft(t, 21) + Pow2(21) - 1} : t \in 0..7}
  \cup {16777216, 16777221, 33554432}

\* values randint(0, 2**n - 1) may return
RandInts(n) == {0, 1, Pow2(n - 1), Pow2(n) - 1}

InitAddr ==
  /\ obj = None
  /\ key = <<>>
  /\ direction = None
  /\ wire = None
  /\ out = None
  /\ log = 0

ChooseNetId ==
  /\ obj = None
  /\ \E n \in NetIds : obj' = [kind |-> "NetId", net_id |-> n]
  /\ UNCHANGED <<key, direction, wire, out, log>>

\* the outcomes of generate_dev_addr_for_network(net_id)
DevAddrOutcomes(net_id) ==
  IF ShiftRight(net_id, 21) > 7 THEN {generate_dev_addr_for_network(net_id, 0)}
  ELSE {generate_dev_addr_for_network(net_id, r) : r \in RandInts(AddrLenOf(net_id))}

\* wire = generate_dev_addr_for_network(net_id)
FirstDevAddr ==
  /\ obj # None
  /\ wire = None
  /\ wire' \in DevAddrOutcomes(obj.net_id)
  /\ UNCHANGED <<obj, key, direction, out, log>>

\* out = generate_dev_addr_for_network(net_id)
SecondDevAddr ==
  /\ wire # None
  /\ out = None
  /\ out' \in DevAddrOutcomes(obj.net_id)
  /\ UNCHANGED <<obj, key, direction, wire, log>>

NextAddr == ChooseNetId \/ FirstDevAddr \/ SecondDevAddr

SpecAddr == InitAddr /\ [][NextAddr]_vars

\* bit i (31 the most significant) of a 32-bit value held as limbs
WideBit(w, i) == IF i >= 16 THEN (w[1] \div Pow2(i - 16)) % 2 ELSE (w[2] \div Pow2(i)) % 2

\* what C18 says of one returned address
DevAddrAsClaimed(net_id, addr) ==
  LET t          == net_id \div 2097152
      nwk_id_len == <<6, 6, 9, 11, 12, 13, 15, 17>>[t + 1]
      addr_len   == 32 - (t + 1) - nwk_id_len
  IN IF t >= 8 THEN addr = Raise("LoRaError")
     ELSE /\ addr.kind = "int"
          /\ addr.limbs[1] \in 0..65535 /\ addr.limbs[2] \in 0..65535
          /\ \A i \in 0..(t - 1) : WideBit(addr.limbs, 31 - i) = 1
          /\ WideBit(addr.limbs, 31 - t) = 0
          /\ \A i \in 0..(nwk_id_len - 1) :
               WideBit(addr.limbs, addr_len + i) = (net_id \div Pow2(i)) % 2

\* C18: for every net_id below 2^24 generate_dev_addr_for_network returns a
\* 32-bit value prefix << (nwk_id_len + addr_len) | nwk_id << addr_len | r with
\* the prefix and lengths of the type net_id >> 21, nwk_id the low nwk_id_len
\* bits of net_id and r below 2^addr_len: it starts with t one-bits and a zero
\* bit, and two calls with the same net_id agree above the low addr_len bits;
\* a net_id of type 8 or more raises LoRaError.
C18_DevAddrAllocation ==
  /\ wire # None => DevAddrAsClaimed(obj.net_id, wire)
  /\ out # None =>
       /\ DevAddrAsClaimed(obj.net_id, out)
       /\ out.kind = "int" =>
            \A i \in AddrLenOf(obj.net_id)..31 : WideBit(out.limbs, i) = WideBit(wire.limbs, i)

\* two different addresses were returned for a type-7 net_id with all
\* network-id bits set
C18_Witness ==
  /\ out # None
  /\ obj.net_id = 7 * 2097152 + 131071
  /\ out.kind = "int"
  /\ out # wire
  /\ out.limbs = <<65279, 65535>>

---------------------------------------------------------------------------
(* Command dispatch as the parser drives it: a CID byte has been read from *)
(* a stream of one direction and MACCommandParser.create looks it up and   *)
(* decodes the bytes that follow.                                          *)

\* the bytes that follow the CID: none, or enough for the longest body
BodiesAfterCid == {<<>>, <<1, 2, 3, 4, 5>>}

InitDispatch ==
  /\ obj = None
  /\ key = <<>>
  /\ direction \in Directions
  /\ wire = None
  /\ out = None
  /\ log = 0

ReadCid ==
  /\ obj = None
  /\ \E command_id \in 0..255 : obj' = [kind |-> "CID", command_id |-> command_id]
  /\ \E b \in BodiesAfterCid : wire' = Bytes(b)
  /\ UNCHANGED <<key, direction, out, log>>

\* out = MACCommandParser.create(commands_stream, command_id, direction)
CreateCommand ==
  /\ obj # None
  /\ out = None
  /\ out' = MACCommandParser_create(wire.val, 0, obj.command_id, direction)
  /\ UNCHANGED <<obj, key, direction, wire, log>>

NextDispatch == ReadCid \/ CreateCommand

SpecDispatch == InitDispatch /\ [][NextDispatch]_vars

\* the CIDs registered for a direction
Registered(dir) == {c \in 0..255 : mac_commands_map(dir, c) # NoCommand}

\* C19: the uplink and downlink dispatch tables register the same 13 CIDs,
\* each CID maps to a different command type in each direction, every
\* registered type's CID attribute is the key it is registered under, and CID
\* 0x10 is PingSlotInfoReq uplink and PingSlotInfoAns downlink; create fails
\* with MACCommandCreateError exactly for the CIDs that are not registered.
C19_DirectionScopedDispatch ==
  /\ Registered("UP") = Registered("DOWN")
  /\ Cardinality(Registered("UP")) = 13
  /\ \A c \in Registered("UP") :
       /\ mac_commands_map("UP", c) # mac_commands_map("DOWN", c)
       /\ CID(mac_commands_map("UP", c)) = c
       /\ CID(mac_commands_map("DOWN", c)) = c
  /\ mac_commands_map("UP", 16) = "PingSlotInfoReq"
  /\ mac_commands_map("DOWN", 16) = "PingSlotInfoAns"
  /\ out # None =>
       /\ (out = Raise("MACCommandCreateError")) <=> (obj.command_id \notin Registered(direction))
       /\ ~IsError(out) =>
            /\ out.kind = mac_commands_map(direction, obj.command_id)
            /\ CID(out.kind) = obj.command_id

\* CID 0x10 read from a downlink stream was created as PingSlotInfoAns
C19_Witness ==
  /\ out # None
  /\ direction = "DOWN"
  /\ obj.command_id = 16
  /\ out.kind = "PingSlotInfoAns"

---------------------------------------------------------------------------
(* bands: datarate tables and the RX1 downlink datarate *)

\* LoRaDataRate(index, spreading, bandwidth, direction)
LoRaDataRate(index, spreading, bandwidth, dir) ==
  [kind |-> "LoRaDataRate", index |-> index, spreading |-> spreading,
   bandwidth |-> bandwidth, direction |-> dir]

\* FSKDataRate(index, bitrate, direction)
FSKDataRate(index, bitrate, dir) ==
  [kind |-> "FSKDataRate", index |-> index, bitrate |-> bitrate, direction |-> dir]

\* LRFHSSDataRate(index, coding_rate, occupied_channel_width, direction)
LRFHSSDataRate(index, coding_rate, occupied_channel_width, dir) ==
  [kind |-> "LRFHSSDataRate", index |-> index, coding_rate |-> coding_rate,
   occupied_channel_width |-> occupied_channel_width, direction |-> dir]

\* RFUDataRate(index): its direction is Direction.both
RFUDataRate(index) == [kind |-> "RFUDataRate", index |-> index, direction |-> "both"]

\* AS923.table_datarates[i]
AS923_table_datarates(i) ==
  CASE i \in 0..5 -> LoRaDataRate(i, 12 - i, 125, "both")
    [] i = 6 -> LoRaDataRate(6, 7, 250, "both")
    [] i = 7 -> FSKDataRate(7, 50000, "both")
    [] i \in 8..15 -> RFUDataRate(i)

\* EU863_870.table_datarates[i]
EU863_870_table_datarates(i) ==
  CASE i \in 0..5 -> LoRaDataRate(i, 12 - i, 125, "both")
    [] i = 6 -> LoRaDataRate(6, 7, 250, "both")
    [] i = 7 -> FSKDataRate(7, 50000, "both")
    [] i = 8 -> LRFHSSDataRate(8, "1/3", 137000, "uplink")
    [] i = 9 -> LRFHSSDataRate(9, "2/3", 137000, "uplink")
    [] i = 10 -> LRFHSSDataRate(10, "1/3", 336000, "uplink")
    [] i = 11 -> LRFHSSDataRate(11, "2/3", 336000, "uplink")
    [] i \in 12..15 -> RFUDataRate(i)

\* US902_928.table_datarates[i]
US902_928_table_datarates(i) ==
  CASE i \in 0..3 -> LoRaDataRate(i, 10 - i, 125, "uplink")
    [] i = 4 -> LoRaDataRate(4, 8, 500, "uplink")
    [] i = 5 -> LRFHSSDataRate(5, "1/3", 1523000, "uplink")
    [] i = 6 -> LRFHSSDataRate(6, "2/3", 1523000, "uplink")
    [] i = 7 -> RFUDataRate(7)
    [] i \in 8..13 -> LoRaDataRate(i, 20 - i, 500, "downlink")
    [] i \in 14..15 -> RFUDataRate(i)

\* AU915_928.table_datarates[i]
AU915_928_table_datarates(i) ==
  CASE i \in 0..5 -> LoRaDataRate(i, 12 - i, 125, "uplink")
    [] i = 6 -> LoRaDataRate(6, 8, 500, "uplink")
    [] i = 7 -> LRFHSSDataRate(7, "1/3", 1523000, "uplink")
    [] i \in 8..13 -> LoRaDataRate(i, 20 - i, 500, "downlink")
    [] i \in 14..15 -> RFUDataRate(i)

\* the band classes of the source
Bands == {"AS923", "EU863_870", "US902_928", "US902_928A", "US902_928AB",
          "AU915_928", "AU915_928A"}

\* the class a band inherits its tables and methods from
BaseOf(band) ==
  CASE band \in {"US902_928A", "US902_928AB"} -> "US902_928"
    [] band = "AU915_928A" -> "AU915_928"
    [] OTHER -> band

\* band.table_datarates[i]
table_datarates(band, i) ==
  CASE BaseOf(band) = "AS923" -> AS923_table_datarates(i)
    [] BaseOf(band) = "EU863_870" -> EU863_870_table_datarates(i)
    [] BaseOf(band) = "US902_928" -> US902_928_table_datarates(i)
    [] BaseOf(band) = "AU915_928" -> AU915_928_table_datarates(i)

\* AS923.get_downlink_datarate
AS923_get_downlink_datarate(uplink_datarate, rx1_datarate_offset) ==
  AS923_table_datarates(Min(5, Max(0, uplink_datarate.index - rx1_datarate_offset)))

\* the formula of get_range_datarate, which has no upper clamp
EU863_870_get_downlink_datarate_NoUpperClamp(uplink_datarate, rx1_datarate_offset) ==
  EU863_870_table_datarates(Max(0, uplink_datarate.index - rx1_datarate_offset))

\* EU863_870.get_downlink_datarate
EU863_870_get_downlink_datarate(uplink_datarate, rx1_datarate_offset) ==
  EU863_870_table_datarates(Min(Max(0, uplink_datarate.index - rx1_datarate_offset), 7))

\* the formula that would start from 8, as AU915-928 does
US902_928_get_downlink_datarate_From8(uplink_datarate, rx1_datarate_offset) ==
  US902_928_table_datarates(Min(Max(8, 8 + uplink_datarate.index - rx1_datarate_offset), 13))

\* US902_928.get_downlink_datarate
US902_928_get_downlink_datarate(uplink_datarate, rx1_datarate_offset) ==
  US902_928_table_datarates(Min(Max(8, 10 + uplink_datarate.index - rx1_datarate_offset), 13))

\* AU915_928.get_downlink_datarate
AU915_928_get_downlink_datarate(uplink_datarate, rx1_datarate_offset) ==
  AU915_928_table_datarates(Min(Max(8, 8 + uplink_datarate.index - rx1_datarate_offset), 13))

\* band.get_downlink_datarate(uplink_datarate, rx1_datarate_offset)
get_downlink_datarate(band, uplink_datarate, rx1_datarate_offset) ==
  CASE BaseOf(band) = "AS923" -> AS923_get_downlink_datarate(uplink_datarate, rx1_datarate_offset)
    [] BaseOf(band) = "EU863_870" ->
         EU863_870_get_downlink_datarate(uplink_datarate, rx1_datarate_offset)
    [] BaseOf(band) = "US902_928" ->
         US902_928_get_downlink_datarate(uplink_datarate, rx1_datarate_offset)
    [] BaseOf(band) = "AU915_928" ->
         AU915_928_get_downlink_datarate(uplink_datarate, rx1_datarate_offset)

---------------------------------------------------------------------------
(* The RX1 datarate as the network server asks for it: it holds a band,    *)
(* an uplink arrives at some datarate, and it asks the band for the        *)
(* downlink datarate under an RX1 offset.                                  *)

InitRx1 ==
  /\ obj = None
  /\ key = <<>>
  /\ direction = None
  /\ wire = None
  /\ out = None
  /\ log = 0

ChooseBand ==
  /\ obj = None
  /\ \E band \in Bands : obj' = [kind |-> "Band", name |-> band]
  /\ UNCHANGED <<key, direction, wire, out, log>>

\* an uplink at datarate index u, to be answered under RX1 offset o
ReceiveUplink ==
  /\ obj # None
  /\ wire = None
  /\ \E u \in 0..15, o \in 0..7 :
       wire' = [kind |-> "Uplink", uplink_datarate |-> table_datarates(obj.name, u),
                rx1_datarate_offset |-> o]
  /\ UNCHANGED <<obj, key, direction, out, log>>

\* out = band.get_downlink_datarate(uplink_datarate, rx1_datarate_offset)
GetDownlinkDatarate ==
  /\ wire # None
  /\ out = None
  /\ out' = get_downlink_datarate(obj.name, wire.uplink_datarate, wire.rx1_datarate_offset)
  /\ UNCHANGED <<obj, key, direction, wire, log>>

NextRx1 == ChooseBand \/ ReceiveUplink \/ GetDownlinkDatarate

SpecRx1 == InitRx1 /\ [][NextRx1]_vars

\* clamp(x, lo, hi)
Clamp(x, lo, hi) == IF x < lo THEN lo ELSE IF x > hi THEN hi ELSE x

\* C20: for every uplink datarate index u in 0..15 and RX1 offset o in 0..7,
\* get_downlink_datarate returns the band's datarate table entry of index
\* clamp(u - o, 0, 5) for AS923, clamp(u - o, 0, 7) for EU863-870,
\* clamp(10 + u - o, 8, 13) for US902-928 and its sub-bands, and
\* clamp(8 + u - o, 8, 13) for AU915-928 and its sub-band.
C20_DownlinkDatarate ==
  out # None =>
    LET u    == wire.uplink_datarate.index
        o    == wire.rx1_datarate_offset
        band == obj.name
        i    == CASE band = "AS923" -> Clamp(u - o, 0, 5)
                  [] band = "EU863_870" -> Clamp(u - o, 0, 7)
                  [] band \in {"US902_928", "US902_928A", "US902_928AB"} -> Clamp(10 + u - o, 8, 13)
                  [] band \in {"AU915_928", "AU915_928A"} -> Clamp(8 + u - o, 8, 13)
    IN /\ out = table_datarates(band, i)
       /\ out.index = i

\* a sub-band of US902-928 answered an uplink at DR0 under offset 3 at DR8,
\* the lower clamp
C20_Witness ==
  /\ out # None
  /\ obj.name = "US902_928AB"
  /\ wire.uplink_datarate.index = 0
  /\ wire.rx1_datarate_offset = 3
  /\ out.index = 8
  /\ out.spreading = 12

---------------------------------------------------------------------------
(* bands: channels.  Channel objects are mutable and the class bodies      *)
(* share them by reference, so they live in a heap: a sequence of Channel  *)
(* records in which an object's address is its position.  A Python list of *)
(* channels is a sequence of addresses.                                     *)

\* Channel(index, frequency_khz, datarates, coding_rate="4/5", fixed=True, is_used=True)
Channel(index, frequency_khz, datarates, fixed, is_used) ==
  [kind |-> "Channel", index |-> index, frequency_khz |-> frequency_khz,
   datarates |-> datarates, coding_rate |-> "4/5", fixed |-> fixed, is_used |-> is_used]

\* get_range_datarates(table_datarates, start, end): range(start, end) leaves end out
get_range_datarates(table, start, end) == [k \in 1..(end - start) |-> table[start + k - 1]]

\* the list literal bound to AS923.uplink_channels and AS923.downlink_channels
AS923_channels ==
  LET r == get_range_datarates([i \in 0..15 |-> AS923_table_datarates(i)], 0, 6)
  IN << Channel(0, 923200, r, TRUE, TRUE),
        Channel(1, 923400, r, TRUE, TRUE),
        Channel(2, 923000, r, FALSE, TRUE),
        Channel(3, 923600, r, FALSE, TRUE),
        Channel(4, 923800, r, FALSE, TRUE),
        Channel(5, 924000, <<AS923_table_datarates(6)>>, FALSE, TRUE),
        Channel(6, 924200, r, FALSE, TRUE),
        Channel(7, 924400, <<AS923_table_datarates(7)>>, FALSE, TRUE) >>

\* the list literal bound to EU863_870.uplink_channels and EU863_870.downlink_channels
EU863_870_channels ==
  LET r == get_range_datarates([i \in 0..15 |-> EU863_870_table_datarates(i)], 0, 6)
  IN << Channel(0, 868100, r, TRUE, TRUE),
        Channel(1, 868300, r, TRUE, TRUE),
        Channel(2, 868500, r, TRUE, TRUE),
        Channel(3, 867100, r, FALSE, TRUE),
        Channel(4, 867500, r, FALSE, TRUE),
        Channel(5, 867700, r, FALSE, TRUE),
        Channel(6, 867900, r, FALSE, TRUE),
        Channel(7, 867300, <<EU863_870_table_datarates(6)>>, FALSE, TRUE),
        Channel(8, 867700, <<EU863_870_table_datarates(7)>>, FALSE, TRUE) >>

\* us902_928.calculate_uplink_channels(table_datarates)
US902_928_calculate_uplink_channels(table) ==
  [k \in 1..72 |->
     LET index == k - 1
     IN IF index < 64
          THEN Channel(index, 902300 + index * 200, [i \in 1..4 |-> table[i - 1]], TRUE, TRUE)
          ELSE Channel(index, 903000 + (index - 64) * 1600, <<table[4]>>, TRUE, TRUE)]

\* us902_928.calculate_downlink_channels(table_datarates)
US902_928_calculate_downlink_channels(table) ==
  [k \in 1..8 |-> Channel(k - 1, 923000 + (k - 1) * 600, [i \in 1..6 |-> table[7 + i]], TRUE, TRUE)]

\* au915_928.calculate_uplink_channels(table_datarates)
AU915_928_calculate_uplink_channels(table) ==
  [k \in 1..72 |->
     LET index == k - 1
     IN IF index < 64
          THEN Channel(index, 915200 + index * 200, [i \in 1..6 |-> table[i - 1]], TRUE, TRUE)
          ELSE Channel(index, 915900 + (index - 64) * 1600, <<table[6]>>, TRUE, TRUE)]

\* au915_928.calculate_downlink_channels(table_datarates)
AU915_928_calculate_downlink_channels(table) ==
  [k \in 1..8 |-> Channel(k - 1, 923300 + (k - 1) * 600, [i \in 1..6 |-> table[7 + i]], TRUE, TRUE)]

\* the addresses of n objects allocated after those of heap
NewAddrs(heap, n) == [k \in 1..n |-> Len(heap) + k]

\* the predicate that would keep channel 8 in sub-band A
subband_a_modify_uplink_channel_Keep8(channel) ==
  [channel EXCEPT !.is_used = ~(channel.index > 8)]

\* copy.deepcopy(ch) of a channel, returned by the function below it: a new
\* object with the fields of heap[ch], changed by modify_uplink_channel
\* sub-band A: "if channel.index >= 8: is_used = False else: is_used = True"
subband_a_modify_uplink_channel(channel) ==
  [channel EXCEPT !.is_used = ~(channel.index >= 8)]

\* sub-band AB: only channels [2..5], [10..13] and 64 are used
subband_ab_modify_uplink_channel(channel) ==
  [channel EXCEPT !.is_used = \/ (2 <= channel.index /\ channel.index <= 5)
                              \/ (10 <= channel.index /\ channel.index <= 13)
                              \/ channel.index = 64]

\* the derivation that would modify the parent's channels where they are
calculate_uplink_channels_for_subband_a_NoCopy(heap, channels) ==
  [heap |-> [a \in DOMAIN heap |->
               IF \E k \in DOMAIN channels : channels[k] = a
                 THEN subband_a_modify_uplink_channel(heap[a]) ELSE heap[a]],
   list |-> channels]

\* calculate_uplink_channels_for_subband_a(channels) =
\* [modify_uplink_channel(deepcopy(ch)) for ch in channels]; the same function
\* stands in us902_928.py and in au915_928.py.  It returns the new list, and
\* the heap holds the copies after it.
calculate_uplink_channels_for_subband_a(heap, channels) ==
  [heap |-> heap \o [k \in DOMAIN channels |-> subband_a_modify_uplink_channel(heap[channels[k]])],
   list |-> NewAddrs(heap, Len(channels))]

\* calculate_uplink_channels_for_subband_ab(channels)
calculate_uplink_channels_for_subband_ab(heap, channels) ==
  [heap |-> heap \o [k \in DOMAIN channels |-> subband_ab_modify_uplink_channel(heap[channels[k]])],
   list |-> NewAddrs(heap, Len(channels))]

\* a reference to the object at an address
Ref(addr) == [kind |-> "ref", addr |-> addr]

\* list[i] of Python on a list of objects: positions count from 0, a negative
\* i counts from the end, any other i raises IndexError
ListGet(list, i) ==
  IF 0 <= i /\ i < Len(list) THEN Ref(list[i + 1])
  ELSE IF -Len(list) <= i /\ i < 0 THEN Ref(list[Len(list) + i + 1])
  ELSE IndexError

\* AS923.get_downlink_channel(uplink_channel)
AS923_get_downlink_channel(self, uplink_channel) ==
  ListGet(self.downlink_channels, uplink_channel.index)

\* EU863_870.get_downlink_channel(uplink_channel)
EU863_870_get_downlink_channel(self, uplink_channel) ==
  ListGet(self.downlink_channels, uplink_channel.index)

\* the mapping that would leave the modulo out
US902_928_get_downlink_channel_NoModulo(self, uplink_channel) ==
  ListGet(self.downlink_channels, uplink_channel.index)

\* US902_928.get_downlink_channel(uplink_channel)
US902_928_get_downlink_channel(self, uplink_channel) ==
  ListGet(self.downlink_channels, uplink_channel.index % 8)

\* AU915_928.get_downlink_channel(uplink_channel)
AU915_928_get_downlink_channel(self, uplink_channel) ==
  ListGet(self.downlink_channels, uplink_channel.index % 8)

\* band.get_downlink_channel(uplink_channel), self being the class namespace
get_downlink_channel(band, self, uplink_channel) ==
  CASE BaseOf(band) = "AS923" -> AS923_get_downlink_channel(self, uplink_channel)
    [] BaseOf(band) = "EU863_870" -> EU863_870_get_downlink_channel(self, uplink_channel)
    [] BaseOf(band) = "US902_928" -> US902_928_get_downlink_channel(self, uplink_channel)
    [] BaseOf(band) = "AU915_928" -> AU915_928_get_downlink_channel(self, uplink_channel)

---------------------------------------------------------------------------
(* The band classes as the interpreter defines them and a caller uses      *)
(* them.  obj holds the Channel objects, one heap per source file (named   *)
(* by the file's first class; no reference crosses files), wire the class  *)
(* attributes uplink_channels and downlink_channels of every band class    *)
(* defined so far (None before its class body has run), direction the call *)
(* a caller makes and out its result.  A file's class bodies run in the    *)
(* file's order, the files in any order.                                   *)

\* the first class of each source file
Files == {BaseOf(band) : band \in Bands}

InitChan ==
  /\ obj = [f \in Files |-> <<>>]
  /\ key = <<>>
  /\ direction = None
  /\ wire = [b \in Bands |-> None]
  /\ out = None
  /\ log = 0

\* the class attributes uplink_channels and downlink_channels
ClassAttrs(uplink_channels, downlink_channels) ==
  [kind |-> "class", uplink_channels |-> uplink_channels,
   downlink_channels |-> downlink_channels]

\* class AS923 / class EU863_870: uplink_channels = downlink_channels = [...]
DefineDynamicBand ==
  /\ direction = None
  /\ \E band \in {"AS923", "EU863_870"} :
       /\ wire[band] = None
       /\ LET channels == IF band = "AS923" THEN AS923_channels ELSE EU863_870_channels
              list == NewAddrs(obj[band], Len(channels))
          IN /\ obj' = [obj EXCEPT ![band] = @ \o channels]
             /\ wire' = [wire EXCEPT ![band] = ClassAttrs(list, list)]
  /\ UNCHANGED <<key, direction, out, log>>

\* class US902_928 / class AU915_928: uplink_channels = calculate_uplink_channels(...),
\* downlink_channels = calculate_downlink_channels(...)
DefineFixedBand ==
  /\ direction = None
  /\ \E band \in {"US902_928", "AU915_928"} :
       /\ wire[band] = None
       /\ LET up   == IF band = "US902_928"
                        THEN US902_928_calculate_uplink_channels([i \in 0..15 |-> US902_928_table_datarates(i)])
                        ELSE AU915_928_calculate_uplink_channels([i \in 0..15 |-> AU915_928_table_datarates(i)])
              down == IF band = "US902_928"
                        THEN US902_928_calculate_downlink_channels([i \in 0..15 |-> US902_928_table_datarates(i)])
                        ELSE AU915_928_calculate_downlink_channels([i \in 0..15 |-> AU915_928_table_datarates(i)])
              heap1 == obj[band] \o up
          IN /\ obj' = [obj EXCEPT ![band] = heap1 \o down]
             /\ wire' = [wire EXCEPT ![band] =
                           ClassAttrs(NewAddrs(obj[band], Len(up)), NewAddrs(heap1, Len(down)))]
  /\ UNCHANGED <<key, direction, out, log>>

\* class US902_928A(US902_928) / class AU915_928A(AU915_928):
\* uplink_channels = calculate_uplink_channels_for_subband_a(Parent.uplink_channels);
\* downlink_channels is the parent's attribute
DefineSubBandA ==
  /\ direction = None
  /\ \E band \in {"US902_928A", "AU915_928A"} :
       /\ wire[band] = None
       /\ wire[BaseOf(band)] # None
       /\ LET r == calculate_uplink_channels_for_subband_a(obj[BaseOf(band)],
                                                           wire[BaseOf(band)].uplink_channels)
          IN /\ obj' = [obj EXCEPT ![BaseOf(band)] = r.heap]
             /\ wire' = [wire EXCEPT ![band] =
                           ClassAttrs(r.list, wire[BaseOf(band)].downlink_channels)]
  /\ UNCHANGED <<key, direction, out, log>>

\* class US902_928AB(US902_928), after US902_928A in the file
DefineSubBandAB ==
  /\ direction = None
  /\ wire["US902_928AB"] = None
  /\ wire["US902_928A"] # None
  /\ LET r == calculate_uplink_channels_for_subband_ab(obj["US902_928"],
                                                       wire["US902_928"].uplink_channels)
     IN /\ obj' = [obj EXCEPT !["US902_928"] = r.heap]
        /\ wire' = [wire EXCEPT !["US902_928AB"] =
                      ClassAttrs(r.list, wire["US902_928"].downlink_channels)]
  /\ UNCHANGED <<key, direction, out, log>>

\* the Channel object a band's list holds at a position (counted from 1)
ChannelAt(band, list, position) == obj[BaseOf(band)][list[position]]

\* a caller picks an uplink channel c of a band: band.uplink_channels[position]
PickUplinkChannel ==
  /\ direction = None
  /\ \E band \in Bands :
       /\ wire[band] # None
       /\ \E position \in DOMAIN wire[band].uplink_channels :
            direction' = [kind |-> "call", band |-> band,
                          uplink_channel |-> wire[band].uplink_channels[position]]
  /\ UNCHANGED <<obj, key, wire, out, log>>

\* out = band.get_downlink_channel(c): a reference to a Channel, or the error raised
GetDownlinkChannel ==
  /\ direction # None
  /\ out = None
  /\ out' = get_downlink_channel(direction.band, wire[direction.band],
                                 obj[BaseOf(direction.band)][direction.uplink_channel])
  /\ UNCHANGED <<obj, key, direction, wire, log>>

NextChan ==
  \/ DefineDynamicBand
  \/ DefineFixedBand
  \/ DefineSubBandA
  \/ DefineSubBandAB
  \/ PickUplinkChannel
  \/ GetDownlinkChannel

SpecChan == InitChan /\ [][NextChan]_vars

\* C21: for every uplink channel c of a band, get_downlink_channel(c) returns
\* the band's downlink channel at list position c.index for AS923 and
\* EU863-870, and at position c.index mod (number of downlink channels) for
\* US902-928, AU915-928 and their sub-bands; the position exists and the
\* channel there has the position as its index.
C21_DownlinkChannelMapping ==
  out # None =>
    LET band == direction.band
        heap == obj[BaseOf(band)]
        c    == heap[direction.uplink_channel]
        down == wire[band].downlink_channels
        position == IF band \in {"AS923", "EU863_870"}
                      THEN c.index ELSE c.index % Len(down)
    IN /\ position \in 0..(Len(down) - 1)
       /\ out = Ref(down[position + 1])
       /\ heap[out.addr].index = position

\* uplink channel 71 of sub-band AB of US902-928 is answered on downlink
\* channel 7, at 923000 + 7 * 600 kHz
C21_Witness ==
  /\ out # None
  /\ direction.band = "US902_928AB"
  /\ obj["US902_928"][direction.uplink_channel].index = 71
  /\ out.kind = "ref"
  /\ obj["US902_928"][out.addr].index = 7
  /\ obj["US902_928"][out.addr].frequency_khz = 927200

---------------------------------------------------------------------------
(* bands: the maximum payload size tables of the bands with a dwell time   *)
(* argument.  An int that may be None is the record IntObj(n) or None; a   *)
(* dictionary lookup of a missing key raises KeyError.                     *)

\* a Python int where None may stand as well
IntObj(n) == [kind |-> "int", val |-> n]

\* d[k] of Python on a dictionary without the key k
KeyError == Raise("KeyError")

\* MaxPayloadSizeWithDwell(dr, n_dwell_0, n_dwell_1)
MaxPayloadSizeWithDwell(dr, n_dwell_0, n_dwell_1) ==
  [kind |-> "MaxPayloadSizeWithDwell", dr |-> dr, n_dwell_0 |-> n_dwell_0, n_dwell_1 |-> n_dwell_1]

\* AS923.table_maximum_payload_size[i]
AS923_table_maximum_payload_size(i) ==
  CASE i = 0 -> MaxPayloadSizeWithDwell(0, IntObj(51), None)
    [] i = 1 -> MaxPayloadSizeWithDwell(1, IntObj(51), None)
    [] i = 2 -> MaxPayloadSizeWithDwell(2, IntObj(51), IntObj(11))
    [] i = 3 -> MaxPayloadSizeWithDwell(3, IntObj(115), IntObj(53))
    [] i = 4 -> MaxPayloadSizeWithDwell(4, IntObj(222), IntObj(125))
    [] i = 5 -> MaxPayloadSizeWithDwell(5, IntObj(222), IntObj(242))
    [] i = 6 -> MaxPayloadSizeWithDwell(6, IntObj(222), IntObj(242))
    [] i = 7 -> MaxPayloadSizeWithDwell(7, IntObj(222), IntObj(242))
    [] OTHER -> KeyError

\* AU915_928.table_maximum_payload_size[i]; the rows 6 to 13 are built with dr=5
AU915_928_table_maximum_payload_size(i) ==
  CASE i = 0 -> MaxPayloadSizeWithDwell(0, IntObj(51), None)
    [] i = 1 -> MaxPayloadSizeWithDwell(1, IntObj(51), None)
    [] i = 2 -> MaxPayloadSizeWithDwell(2, IntObj(115), IntObj(11))
    [] i = 3 -> MaxPayloadSizeWithDwell(3, IntObj(222), IntObj(53))
    [] i = 4 -> MaxPayloadSizeWithDwell(4, IntObj(222), IntObj(125))
    [] i = 5 -> MaxPayloadSizeWithDwell(5, IntObj(222), IntObj(222))
    [] i = 6 -> MaxPayloadSizeWithDwell(5, IntObj(222), IntObj(222))
    [] i = 7 -> MaxPayloadSizeWithDwell(5, IntObj(50), IntObj(50))
    [] i = 8 -> MaxPayloadSizeWithDwell(5, IntObj(53), IntObj(53))
    [] i = 9 -> MaxPayloadSizeWithDwell(5, IntObj(129), IntObj(129))
    [] i \in 10..13 -> MaxPayloadSizeWithDwell(5, IntObj(222), IntObj(222))
    [] OTHER -> KeyError

\* what a call that returns hands to its caller
Return(value) == [kind |-> "return", value |-> value]

\* AS923.get_max_payload_size(datarate, dwell_time=0): the row is looked up
\* before dwell_time is looked at
AS923_get_max_payload_size(datarate, dwell_time) ==
  LET max_size == AS923_table_maximum_payload_size(datarate.index)
  IN IF IsError(max_size) THEN max_size
     ELSE IF dwell_time = 0 THEN Return(max_size.n_dwell_0)
     ELSE IF dwell_time = 1 THEN Return(max_size.n_dwell_1)
     ELSE Raise("ValueError")

\* AU915_928.get_max_payload_size(datarate, dwell_time=0)
AU915_928_get_max_payload_size(datarate, dwell_time) ==
  LET max_size == AU915_928_table_maximum_payload_size(datarate.index)
  IN IF IsError(max_size) THEN max_size
     ELSE IF dwell_time = 0 THEN Return(max_size.n_dwell_0)
     ELSE IF dwell_time = 1 THEN Return(max_size.n_dwell_1)
     ELSE Raise("ValueError")

\* the band classes whose get_max_payload_size takes a dwell time
DwellBands == {"AS923", "AU915_928", "AU915_928A"}

\* band.table_maximum_payload_size[i] of such a band
table_maximum_payload_size(band, i) ==
  IF BaseOf(band) = "AS923" THEN AS923_table_maximum_payload_size(i)
  ELSE AU915_928_table_maximum_payload_size(i)

\* band.get_max_payload_size(datarate, dwell_time) of such a band
get_max_payload_size(band, datarate, dwell_time) ==
  IF BaseOf(band) = "AS923" THEN AS923_get_max_payload_size(datarate, dwell_time)
  ELSE AU915_928_get_max_payload_size(datarate, dwell_time)

---------------------------------------------------------------------------
(* A caller asks a band for the maximum payload size of one of the band's  *)
(* datarates under a dwell time.                                           *)

\* the dwell times asked with: the two the tables know, one below, one above
DwellTimes == {-1, 0, 1, 2}

InitSize ==
  /\ obj = None
  /\ key = <<>>
  /\ direction = None
  /\ wire = None
  /\ out = None
  /\ log = 0

ChooseDwellBand ==
  /\ obj = None
  /\ \E band \in DwellBands : obj' = [kind |-> "Band", name |-> band]
  /\ UNCHANGED <<key, direction, wire, out, log>>

\* the arguments of the call: a datarate of the band's table and a dwell time
ChooseDatarateAndDwellTime ==
  /\ obj # None
  /\ wire = None
  /\ \E i \in 0..15, dwell_time \in DwellTimes :
       wire' = [kind |-> "args", datarate |-> table_datarates(obj.name, i),
                dwell_time |-> dwell_time]
  /\ UNCHANGED <<obj, key, direction, out, log>>

\* out = band.get_max_payload_size(datarate, dwell_time)
GetMaxPayloadSize ==
  /\ wire # None
  /\ out = None
  /\ out' = get_max_payload_size(obj.name, wire.datarate, wire.dwell_time)
  /\ UNCHANGED <<obj, key, direction, wire, log>>

NextSize == ChooseDwellBand \/ ChooseDatarateAndDwellTime \/ GetMaxPayloadSize

SpecSize == InitSize /\ [][NextSize]_vars

\* C22: get_max_payload_size of AS923 and AU915-928 returns an integer or
\* raises an error, never an undefined value: dwell_time 0 selects the
\* dwell-0 column and dwell_time 1 the dwell-1 column of the datarate's row,
\* a dwell_time outside {0, 1} raises an error, and dwell_time 1 on a row
\* whose dwell-1 column is undefined (DR0, DR1) raises an error.
C22_MaxPayloadSizeDefined ==
  out # None =>
    LET row == table_maximum_payload_size(obj.name, wire.datarate.index)
        d   == wire.dwell_time
    IN /\ IsError(out) \/ (out.kind = "return" /\ out.value.kind = "int")
       /\ d \notin {0, 1} => IsError(out)
       /\ (~IsError(row) /\ d = 0 /\ row.n_dwell_0 # None) => out = Return(row.n_dwell_0)
       /\ (~IsError(row) /\ d = 1 /\ row.n_dwell_1 # None) => out = Return(row.n_dwell_1)
       /\ (~IsError(row) /\ d = 1 /\ row.n_dwell_1 = None) => IsError(out)

---------------------------------------------------------------------------
(* bands: the channel mask control tables *)

\* RangeChMaskCtrl(index, start, end)
RangeChMaskCtrl(index, start, end) ==
  [kind |-> "RangeChMaskCtrl", index |-> index, start |-> start, end |-> end]

\* RFUChMaskCtrl(index), On125kHzChMaskCtrl(index), Off125kHzChMaskCtrl(index),
\* AllOnChMaskCtrl(index): ChMaskCtrl.__init__ keeps the index
ChMaskCtrl(cls, index) == [kind |-> cls, index |-> index]

\* AS923.table_ch_mask_cntl_value[i]
AS923_table_ch_mask_cntl_value(i) ==
  CASE i = 0 -> RangeChMaskCtrl(0, 0, 15)
    [] i \in 1..5 -> ChMaskCtrl("RFUChMaskCtrl", i)
    [] i = 6 -> ChMaskCtrl("AllOnChMaskCtrl", 6)
    [] i = 7 -> ChMaskCtrl("RFUChMaskCtrl", 7)
    [] OTHER -> KeyError

\* EU863_870.table_ch_mask_cntl_value[i]
EU863_870_table_ch_mask_cntl_value(i) ==
  CASE i = 0 -> RangeChMaskCtrl(0, 0, 15)
    [] i \in 1..5 -> ChMaskCtrl("RFUChMaskCtrl", i)
    [] i = 6 -> ChMaskCtrl("AllOnChMaskCtrl", 6)
    [] i = 7 -> ChMaskCtrl("RFUChMaskCtrl", 7)
    [] OTHER -> KeyError

\* US902_928.table_ch_mask_cntl_value[i]
US902_928_table_ch_mask_cntl_value(i) ==
  CASE i \in 0..3 -> RangeChMaskCtrl(i, 16 * i, 16 * i + 15)
    [] i = 4 -> RangeChMaskCtrl(4, 64, 71)
    [] i = 5 -> ChMaskCtrl("RFUChMaskCtrl", 5)
    [] i = 6 -> ChMaskCtrl("On125kHzChMaskCtrl", 6)
    [] i = 7 -> ChMaskCtrl("Off125kHzChMaskCtrl", 7)
    [] OTHER -> KeyError

\* AU915_928.table_ch_mask_cntl_value[i]
AU915_928_table_ch_mask_cntl_value(i) ==
  CASE i \in 0..3 -> RangeChMaskCtrl(i, 16 * i, 16 * i + 15)
    [] i = 4 -> RangeChMaskCtrl(4, 64, 71)
    [] i = 5 -> ChMaskCtrl("RFUChMaskCtrl", 5)
    [] i = 6 -> ChMaskCtrl("On125kHzChMaskCtrl", 6)
    [] i = 7 -> ChMaskCtrl("Off125kHzChMaskCtrl", 7)
    [] OTHER -> KeyError

\* band.table_ch_mask_cntl_value[i]
table_ch_mask_cntl_value(band, i) ==
  CASE BaseOf(band) = "AS923" -> AS923_table_ch_mask_cntl_value(i)
    [] BaseOf(band) = "EU863_870" -> EU863_870_table_ch_mask_cntl_value(i)
    [] BaseOf(band) = "US902_928" -> US902_928_table_ch_mask_cntl_value(i)
    [] BaseOf(band) = "AU915_928" -> AU915_928_table_ch_mask_cntl_value(i)

\* o[k] of Python: the ChMaskCtrl classes define no __getitem__, and
\* subscripting their instances raises TypeError
GetItem(o, k) ==
  IF o.kind = "dict" THEN o.items[k] ELSE Raise("TypeError")

\* Band.get_ch_mask_cntl_by_ch_index(index): "table_index not in table or
\* table[table_index]["type"] != "range"" evaluates its second operand when
\* the row is there
get_ch_mask_cntl_by_ch_index(band, index) ==
  LET table_index == index \div 16
      row == table_ch_mask_cntl_value(band, table_index)
  IN IF IsError(row) THEN Raise("ChMaskCntlError")
     ELSE LET type == GetItem(row, "type")
          IN IF IsError(type) THEN type
             ELSE IF type # "range" THEN Raise("ChMaskCntlError")
             ELSE Return(IntObj(table_index))

---------------------------------------------------------------------------
(* A caller asks a band for the channel mask control value of a channel    *)
(* index.                                                                  *)

\* the channel indices asked for: every index of the eight rows of a table,
\* one below the first row and some behind the last
ChIndices == -1..130

\* the argument of the call
ChooseChIndex ==
  /\ obj # None
  /\ wire = None
  /\ \E index \in ChIndices : wire' = [kind |-> "args", index |-> index]
  /\ UNCHANGED <<obj, key, direction, out, log>>

\* out = band.get_ch_mask_cntl_by_ch_index(index)
GetChMaskCntl ==
  /\ wire # None
  /\ out = None
  /\ out' = get_ch_mask_cntl_by_ch_index(obj.name, wire.index)
  /\ UNCHANGED <<obj, key, direction, wire, log>>

NextMask == ChooseBand \/ ChooseChIndex \/ GetChMaskCntl

SpecMask == InitRx1 /\ [][NextMask]_vars

\* C23: on US902-928 and AU915-928 get_ch_mask_cntl_by_ch_index returns
\* index // 16 for every channel index in 0..71 and raises ChMaskCntlError
\* for every index 72 and above; on any band it raises ChMaskCntlError when
\* the selected row is missing from the table or is not a range row.
C23_ChMaskCntlLookup ==
  out # None =>
    LET band  == obj.name
        index == wire.index
        row   == table_ch_mask_cntl_value(band, index \div 16)
        fixed == BaseOf(band) \in {"US902_928", "AU915_928"}
    IN /\ (fixed /\ index \in 0..71) => out = Return(IntObj(index \div 16))
       /\ (fixed /\ index >= 72) => out = Raise("ChMaskCntlError")
       /\ (IsError(row) \/ row.kind # "RangeChMaskCtrl") => out = Raise("ChMaskCntlError")

\* the channels of a band's uplink list, in the list's order
UplinkChannels(band) ==
  [k \in DOMAIN wire[band].uplink_channels |-> ChannelAt(band, wire[band].uplink_channels, k)]

\* C24: in US902-928A and AU915-928A uplink channel i is enabled exactly when
\* i is in 0..7; in US902-928AB exactly when i is in {2..5, 10..13, 64}; in
\* US902-928 and AU915-928 all 72 uplink channels are enabled; every sub-band
\* uplink list has the length, the channel indices and the frequencies of its
\* parent's list.
C24_SubBandActivation ==
  \A band \in {"US902_928", "US902_928A", "US902_928AB", "AU915_928", "AU915_928A"} :
    wire[band] # None =>
      LET channels == UplinkChannels(band)
          parent   == UplinkChannels(BaseOf(band))
          enabled  == CASE band \in {"US902_928A", "AU915_928A"} -> 0..7
                        [] band = "US902_928AB" -> (2..5) \cup (10..13) \cup {64}
                        [] OTHER -> 0..71
      IN /\ Len(channels) = 72
         /\ Len(channels) = Len(parent)
         /\ \A k \in DOMAIN channels :
              /\ channels[k].index = k - 1
              /\ channels[k].is_used = (channels[k].index \in enabled)
              /\ channels[k].index = parent[k].index
              /\ channels[k].frequency_khz = parent[k].frequency_khz

\* every class is defined: sub-band AB of US902-928 has channel 64 enabled and
\* channel 63 not, sub-band A of AU915-928 channel 7 enabled and channel 8
\* not, and the parents have both enabled
C24_Witness ==
  /\ \A band \in Bands : wire[band] # None
  /\ UplinkChannels("US902_928AB")[65].is_used
  /\ ~UplinkChannels("US902_928AB")[64].is_used
  /\ UplinkChannels("AU915_928A")[8].is_used
  /\ ~UplinkChannels("AU915_928A")[9].is_used
  /\ UplinkChannels("US902_928")[64].is_used
  /\ UplinkChannels("AU915_928")[9].is_used
  /\ UplinkChannels("AU915_928A")[9].frequency_khz = 915200 + 8 * 200

---------------------------------------------------------------------------
(* A caller changes channels of the sub-bands after the classes are        *)
(* defined: out is the last change made and log counts the changes.        *)

\* how many changes a caller makes
MaxMutations == 1

\* the classes derived from a parent's channel list
SubBands == {"US902_928A", "US902_928AB", "AU915_928A"}

\* the list positions of the channels changed: the first and the last of the
\* list and the channels at both sides of every edge of the sub-bands
\* (indices 1|2, 5|6, 7|8, 9|10, 13|14, 63|64|65)
SamplePositions == {1, 2, 3, 6, 7, 8, 9, 10, 11, 14, 15, 64, 65, 66, 72}

\* channel.is_used = not channel.is_used, channel.frequency_khz = 0,
\* channel.datarates = []
SetField(channel, field) ==
  CASE field = "is_used" -> [channel EXCEPT !.is_used = ~@]
    [] field = "frequency_khz" -> [channel EXCEPT !.frequency_khz = 0]
    [] field = "datarates" -> [channel EXCEPT !.datarates = <<>>]

\* band.uplink_channels[position - 1].field = ..., on a sub-band
MutateSubBandChannel ==
  /\ log < MaxMutations
  /\ \A band \in Bands : wire[band] # None
  /\ \E band \in SubBands, position \in SamplePositions,
        field \in {"is_used", "frequency_khz", "datarates"} :
       /\ obj' = [obj EXCEPT ![BaseOf(band)][wire[band].uplink_channels[position]] =
                                SetField(@, field)]
       /\ out' = [kind |-> "mutation", band |-> band, position |-> position, field |-> field]
  /\ log' = log + 1
  /\ UNCHANGED <<key, direction, wire>>

NextAlias ==
  \/ DefineDynamicBand
  \/ DefineFixedBand
  \/ DefineSubBandA
  \/ DefineSubBandAB
  \/ MutateSubBandChannel

SpecAlias == InitChan /\ [][NextAlias]_vars

\* C25: deriving a sub-band leaves the parent band's uplink channel list
\* unchanged, and toggling is_used, or changing another field, of a channel
\* in a sub-band's uplink list afterwards leaves every channel of the
\* parent's uplink list and of every other sub-band's uplink list unchanged:
\* no step changes the uplink list, or a channel in it, of a class that is
\* already defined, but a change made to that class's own list.
C25_SubBandIndependence ==
  [][\A band \in Bands :
       (wire[band] # None /\ ~(log' # log /\ out'.band = band)) =>
         /\ wire'[band] = wire[band]
         /\ UplinkChannels(band)' = UplinkChannels(band)]_vars

\* channel 0 of sub-band A of US902-928 was switched off: the parent and
\* sub-band AB of it keep their own channel 0 as derived
C25_Witness ==
  /\ log = 1
  /\ out.band = "US902_928A"
  /\ out.position = 1
  /\ out.field = "is_used"
  /\ ~UplinkChannels("US902_928A")[1].is_used
  /\ UplinkChannels("US902_928")[1].is_used
  /\ ~UplinkChannels("US902_928AB")[1].is_used
  /\ UplinkChannels("AU915_928A")[1].is_used

---------------------------------------------------------------------------
(* bands: the registry.  A str is the sequence of its characters, so that  *)
(* upper() and replace() are computed and a key is found by comparing      *)
(* characters.  A class is the record Class(name).                         *)

LowercaseLetters == <<"a", "b", "c", "d", "e", "f", "g", "h", "i", "j", "k", "l", "m", "n", "o", "p", "q", "r", "s", "t", "u", "v", "w", "x", "y", "z">>

UppercaseLetters == <<"A", "B", "C", "D", "E", "F", "G", "H", "I", "J", "K", "L", "M", "N", "O", "P", "Q", "R", "S", "T", "U", "V", "W", "X", "Y", "Z">>

\* c.upper() of one character: a lowercase letter becomes its capital, every
\* other character stays
upper_char(c) ==
  IF \E i \in 1..26 : LowercaseLetters[i] = c
    THEN UppercaseLetters[CHOOSE i \in 1..26 : LowercaseLetters[i] = c]
    ELSE c

\* c.lower() of one character
lower_char(c) ==
  IF \E i \in 1..26 : UppercaseLetters[i] = c
    THEN LowercaseLetters[CHOOSE i \in 1..26 : UppercaseLetters[i] = c]
    ELSE c

\* s.upper()
upper(s) == [i \in DOMAIN s |-> upper_char(s[i])]

\* a class object, by its __name__
Class(name) == [kind |-> "class", name |-> name]

\* Band.name: cls.__name__.replace("_", "-")
Band_name(cls) == [i \in DOMAIN cls.name |-> IF cls.name[i] = "_" THEN "-" ELSE cls.name[i]]

\* the classes RP2_1_0_3/__init__.py imports and registers
RP2_1_0_3_classes ==
  { <<"A", "S", "9", "2", "3", "_", "2">>,
    <<"A", "U", "9", "1", "5", "_", "9", "2", "8">>,
    <<"A", "U", "9", "1", "5", "_", "9", "2", "8", "A">>,
    <<"E", "U", "8", "6", "3", "_", "8", "7", "0">>,
    <<"U", "S", "9", "0", "2", "_", "9", "2", "8">>,
    <<"U", "S", "9", "0", "2", "_", "9", "2", "8", "A">>,
    <<"U", "S", "9", "0", "2", "_", "9", "2", "8", "A", "B">> }

\* the classes of the files of RP2_1_0_2
RP2_1_0_2_classes ==
  { <<"A", "S", "9", "2", "3">>,
    <<"U", "S", "9", "0", "2", "_", "9", "2", "8">>,
    <<"U", "S", "9", "0", "2", "_", "9", "2", "8", "A">>,
    <<"U", "S", "9", "0", "2", "_", "9", "2", "8", "A", "B">> }

\* RP2_1_0_3.BANDS_AVAILABLE[name]: the class registered under its Band.name
RP2_1_0_3_BANDS_AVAILABLE(name) ==
  IF \E c \in RP2_1_0_3_classes : Band_name(Class(c)) = name
    THEN Class(CHOOSE c \in RP2_1_0_3_classes : Band_name(Class(c)) = name)
    ELSE KeyError

\* RP2_1_0_3.get_band_by_name(name)
RP2_1_0_3_get_band_by_name(name) ==
  LET n == upper(name)
  IN IF IsError(RP2_1_0_3_BANDS_AVAILABLE(n)) THEN Raise("BandError")
     ELSE Return(RP2_1_0_3_BANDS_AVAILABLE(n))

\* RP2_1_0_2.get_band_by_name(name): the registry interface over the classes
\* of RP2_1_0_2, names without regard to case, a named error for a band that
\* is not registered
RP2_1_0_2_get_band_by_name(name) ==
  LET n == upper(name)
  IN IF \E c \in RP2_1_0_2_classes : Band_name(Class(c)) = n
       THEN Return(Class(CHOOSE c \in RP2_1_0_2_classes : Band_name(Class(c)) = n))
       ELSE Raise("BandError")

\* the keys of RP_AVAILABLE
RP_AVAILABLE == { <<"R", "P", "2", "_", "1", "_", "0", "_", "2">>,
                  <<"R", "P", "2", "_", "1", "_", "0", "_", "3">> }

\* bands.get_band_by_name(name, rp="RP2_1_0_2"): RP_AVAILABLE[rp.upper()] is a
\* dictionary lookup
get_band_by_name(name, rp) ==
  LET key_rp == upper(rp)
  IN IF key_rp \notin RP_AVAILABLE THEN KeyError
     ELSE IF key_rp = <<"R", "P", "2", "_", "1", "_", "0", "_", "2">> THEN RP2_1_0_2_get_band_by_name(name)
     ELSE RP2_1_0_3_get_band_by_name(name)

---------------------------------------------------------------------------
(* A caller looks a band up by name in a regional parameters release.      *)

\* every way of writing s in capitals and small letters
RECURSIVE CaseVariants(_)
CaseVariants(s) ==
  IF s = <<>> THEN {<<>>}
  ELSE {<<c>> \o t : c \in {lower_char(Head(s)), upper_char(Head(s))},
                     t \in CaseVariants(Tail(s))}

\* the band names asked for: every registered name in every letter-case, a
\* class name with its underscore, and names no release registers
BandNames ==
  UNION {CaseVariants(Band_name(Class(c))) : c \in RP2_1_0_3_classes \cup RP2_1_0_2_classes}
    \cup { <<"E", "U", "8", "6", "3", "_", "8", "7", "0">>, <<"K", "R", "9", "2", "0", "-", "9", "2", "3">>, <<>> }

\* the release names asked for: the registered ones in every letter-case, and
\* names that are not registered
RpNames ==
  UNION {CaseVariants(rp) : rp \in RP_AVAILABLE}
    \cup { <<"R", "P", "2", "_", "1", "_", "0", "_", "4">>, <<"R", "P", "2", "-", "1", "-", "0", "-", "3">>, <<>> }

ChooseNames ==
  /\ wire = None
  /\ \E name \in BandNames, rp \in RpNames :
       wire' = [kind |-> "args", name |-> name, rp |-> rp]
  /\ UNCHANGED <<obj, key, direction, out, log>>

\* out = get_band_by_name(name, rp)
GetBandByName ==
  /\ wire # None
  /\ out = None
  /\ out' = get_band_by_name(wire.name, wire.rp)
  /\ UNCHANGED <<obj, key, direction, wire, log>>

NextRegistry == ChooseNames \/ GetBandByName

SpecRegistry == InitRx1 /\ [][NextRegistry]_vars

\* the names that differ from s by letter-case only
SameButCase(s, t) ==
  /\ Len(s) = Len(t)
  /\ \A i \in DOMAIN s : s[i] = t[i] \/ lower_char(s[i]) = t[i] \/ upper_char(s[i]) = t[i]

\* C26: get_band_by_name(name, rp) returns the same band for every letter-case
\* of name and of rp, and fails with BandError both when the band name is not
\* registered in the release and when the release name is not registered.
C26_RegistryLookup ==
  out # None =>
    LET rp_registered == \E rp \in RP_AVAILABLE : SameButCase(rp, wire.rp)
        classes == IF SameButCase(<<"R", "P", "2", "_", "1", "_", "0", "_", "2">>, wire.rp)
                     THEN RP2_1_0_2_classes ELSE RP2_1_0_3_classes
        registered == {c \in classes : SameButCase(Band_name(Class(c)), wire.name)}
    IN /\ (rp_registered /\ registered # {}) =>
            \E c \in registered : out = Return(Class(c))
       /\ (rp_registered /\ registered = {}) => out = Raise("BandError")
       /\ ~rp_registered => out = Raise("BandError")

---------------------------------------------------------------------------
(* JoinAccept.parse on buffers as they arrive: any header type, and        *)
(* lengths on both sides of the shortest join-accept (1 + 12 + 4 bytes).   *)

\* header byte + 0..17 further bytes (also none at all), and a whole second
\* block
JoinAcceptBuffers ==
  {<<>>}
  \cup {<<h>> \o PatternBytes(n, 5) : h \in HeaderBytes, n \in 0..17}
  \cup {<<h>> \o PatternBytes(32, 5) : h \in HeaderBytes}

\* wire = the buffer received
ReceiveJoinAcceptBuffer ==
  /\ wire = None
  /\ \E raw \in JoinAcceptBuffers : wire' = Bytes(raw)
  /\ UNCHANGED <<obj, key, direction, out, log>>

\* out = JoinAccept.parse(wire, key)
ParseJoinAcceptBuffer ==
  /\ wire # None
  /\ out = None
  /\ out' = JoinAccept_parse(wire.val, key)
  /\ UNCHANGED <<obj, key, direction, wire, log>>

NextJoinBuf == ReceiveJoinAcceptBuffer \/ ParseJoinAcceptBuffer

SpecJoinBuf == InitJoin /\ [][NextJoinBuf]_vars

\* C27: JoinAccept.parse rejects with ParseMessageError every buffer whose
\* header type is not JoinAccept and every buffer of fewer than 17 bytes
\* (header byte, 12 bytes of fixed fields, 4-byte MIC); none of them reaches
\* the block cipher, fails with another kind of error or yields fields.
C27_JoinAcceptBufferRejected ==
  out # None =>
    LET raw == wire.val
    IN (Len(raw) < 17 \/ MTypeBits(raw[1]) # MTypeValue("JoinAccept")) =>
         out = Raise("ParseMessageError")

---------------------------------------------------------------------------
(* common.py: extract_mac_commands *)

\* MACCommandDirection(value): UP = 1, DOWN = 2
MACCommandDirection(value) ==
  CASE value = 1 -> "UP"
    [] value = 2 -> "DOWN"
    [] OTHER -> Raise("ValueError")

\* the extraction that would read the options whatever the port
extract_mac_commands_AlwaysOptions(mac_payload, nwk_s_key) ==
  MACCommandParser_parse(mac_payload.fhdr.f_opts,
                         MACCommandDirection(DirectionOf(mac_payload) + 1))

\* extract_mac_commands(mac_payload, nwk_s_key): what MACCommandParser.parse
\* returns and whether it logged a warning
extract_mac_commands(mac_payload, nwk_s_key) ==
  LET dir == DirectionOf(mac_payload)
      commands_buffer ==
        IF mac_payload.f_port = 0
          THEN decrypt_frm_payload(mac_payload.frm_payload, nwk_s_key,
                                   mac_payload.fhdr.dev_addr, mac_payload.fhdr.f_cnt, dir)
          ELSE mac_payload.fhdr.f_opts
  IN MACCommandParser_parse(commands_buffer, MACCommandDirection(dir + 1))

---------------------------------------------------------------------------
(* Frames that carry MAC commands, as a receiver gets them: obj is the     *)
(* MAC payload, key the receiver's network session key, wire what the      *)
(* sender put in: the commands of the options, the commands it encrypted    *)
(* into frm_payload, and the key and direction byte it encrypted with.      *)

\* some commands of a direction: without body, with one byte, with two
CarriedCommands(dir) ==
  IF dir = "UP"
    THEN {[kind |-> "LinkCheckReq"], LinkADRAns_init(TRUE, FALSE, TRUE), DevStatusAns_init(255, 1)}
    ELSE {[kind |-> "DevStatusReq"], DutyCycleReq_init(255), LinkCheckAns_init(0, 1)}

\* the command lists a sender puts in one place: none, one command of either
\* direction, or two of one direction
CarriedLists ==
  {<<>>}
  \cup {<<c>> : c \in CarriedCommands("UP") \cup CarriedCommands("DOWN")}
  \cup {<<LinkADRAns_init(TRUE, FALSE, TRUE), [kind |-> "LinkCheckReq"]>>,
        <<LinkCheckAns_init(0, 1), DutyCycleReq_init(255)>>}

InitExtract ==
  /\ obj = None
  /\ key \in Keys
  /\ direction = None
  /\ wire = None
  /\ out = None
  /\ log = 0

\* a data frame arrives; without a port it has no frm_payload
ReceiveCommandFrame ==
  /\ obj = None
  /\ \E cls \in {"MACPayloadUplink", "MACPayloadDownlink"}, f_port \in {NoPort, 0, 1},
        opts \in CarriedLists, body \in CarriedLists, sender_dir \in {0, 1},
        sender_key \in Keys, dev_addr \in DevAddrs, f_cnt \in FCnts :
       /\ f_port = NoPort => (body = <<>> /\ sender_dir = 0 /\ sender_key = key)
       /\ LET f_opts == StreamOf(opts)
              f_ctrl == IF cls = "MACPayloadUplink"
                          THEN FCtrlUplink_init(FALSE, FALSE, FALSE, FALSE, Len(f_opts))
                          ELSE FCtrlDownlink_init(FALSE, FALSE, FALSE, Len(f_opts))
              fhdr   == FHDR_init(FhdrClsOf(cls), dev_addr, f_ctrl, f_cnt, f_opts)
              frm_payload == encrypt_frm_payload(StreamOf(body), sender_key, dev_addr,
                                                 f_cnt, sender_dir)
          IN /\ obj' = MACPayload_init(cls, fhdr, f_port, frm_payload)
             /\ wire' = [kind |-> "sent", opts |-> opts, body |-> body,
                         sender_dir |-> sender_dir, sender_key |-> sender_key]
  /\ UNCHANGED <<key, direction, out, log>>

\* out = extract_mac_commands(obj, key); the except branch of the parser
\* writes one warning to the log
ExtractMacCommands ==
  /\ obj # None
  /\ out = None
  /\ LET r == extract_mac_commands(obj, key)
     IN /\ out' = [kind |-> "list", items |-> r.items]
        /\ log' = log + (IF r.warned THEN 1 ELSE 0)
  /\ UNCHANGED <<obj, key, direction, wire>>

NextExtract == ReceiveCommandFrame \/ ExtractMacCommands

SpecExtract == InitExtract /\ [][NextExtract]_vars

\* C28: extract_mac_commands takes the command buffer from frm_payload,
\* decrypted with the network session key, dev_addr, f_cnt and the frame's
\* direction, exactly when f_port == 0, and from fhdr.f_opts in every other
\* case, an absent port included; it parses the buffer with the uplink table
\* for a MACPayloadUplink and with the downlink table for a
\* MACPayloadDownlink, and decrypts with the direction it dispatches with.
C28_ExtractMacCommands ==
  out # None =>
    LET uplink == obj.kind = "MACPayloadUplink"
        buffer == IF obj.f_port = 0
                    THEN decrypt_frm_payload(obj.frm_payload, key, obj.fhdr.dev_addr,
                                             obj.fhdr.f_cnt, IF uplink THEN 0 ELSE 1)
                    ELSE obj.fhdr.f_opts
        table  == IF uplink THEN "UP" ELSE "DOWN"
    IN /\ out.items = Parsed(buffer, table)
       /\ (obj.f_port = 0 /\ wire.sender_key = key
             /\ wire.sender_dir = (IF uplink THEN 0 ELSE 1)
             /\ \A i \in DOMAIN wire.body : wire.body[i] \in CarriedCommands(table))
            => out.items = wire.body
       /\ (obj.f_port # 0 /\ \A i \in DOMAIN wire.opts : wire.opts[i] \in CarriedCommands(table))
            => out.items = wire.opts

\* a downlink frame on port 0 whose frm_payload holds two downlink commands,
\* encrypted under the receiver's key for the downlink direction, and whose
\* options hold another command: the two commands of frm_payload came out
C28_Witness ==
  /\ out # None
  /\ obj.kind = "MACPayloadDownlink"
  /\ obj.f_port = 0
  /\ wire.sender_key = key
  /\ wire.sender_dir = 1
  /\ wire.opts = <<[kind |-> "DevStatusReq"]>>
  /\ wire.body = <<LinkCheckAns_init(0, 1), DutyCycleReq_init(255)>>
  /\ out.items = wire.body

---------------------------------------------------------------------------
(* The RX1 datarate is one the gateway can send at. *)

\* DataRate.allowed_for_downlink()
allowed_for_downlink(self) == self.direction # "uplink"

\* C30: for every band, every uplink datarate index 0..15 and every RX1
\* offset 0..7, the datarate get_downlink_datarate returns is an entry of the
\* band's datarate table, is not a reserved (RFU) one and is allowed for
\* downlink, and the call does not fail on a missing table index.
C30_DownlinkDatarateUsable ==
  (out # None /\ wire.kind = "Uplink") =>
    /\ out # KeyError
    /\ out.index \in 0..15
    /\ out = table_datarates(obj.name, out.index)
    /\ out.kind # "RFUDataRate"
    /\ allowed_for_downlink(out)

\* EU863-870 answered an uplink at DR11, which is LR-FHSS and uplink only,
\* under offset 0 at DR7, the FSK datarate: the upper clamp kept the answer
\* among the datarates a gateway sends at
C30_Witness ==
  /\ out # None
  /\ wire.kind = "Uplink"
  /\ obj.name = "EU863_870"
  /\ wire.uplink_datarate.kind = "LRFHSSDataRate"
  /\ wire.uplink_datarate.index = 11
  /\ ~allowed_for_downlink(wire.uplink_datarate)
  /\ wire.rx1_datarate_offset = 0
  /\ out.kind = "FSKDataRate"
  /\ out.index = 7

---------------------------------------------------------------------------
(* The size a command class declares against the bytes its instances take *)
(* on the wire.                                                            *)

\* MACCommand.size
MACCommand_size(self) == SIZE(self.kind) + 1

\* C29: for every command class of either dispatch table and every instance
\* x of it, len(x.generate()) = x.size = SIZE + 1, where SIZE is the number of
\* body bytes the stream parser reads after the CID byte (0..5), and the
\* class's parse reads only the bytes below SIZE of the body it is given: on
\* the first SIZE bytes of the body it returns what it returns on the whole.
C29_DeclaredSizeIsWireSize ==
  \A i \in 1..Len(obj) :
    LET x    == obj[i]
        body == Tail(Command_generate(x))
    IN /\ SIZE(x.kind) \in 0..5
       /\ MACCommand_size(x) = SIZE(x.kind) + 1
       /\ Len(Command_generate(x)) = MACCommand_size(x)
       /\ Command_parse(x.kind, Slice(body, 0, SIZE(x.kind))) = Command_parse(x.kind, body)

====
